---- MODULE Spec2Model ----
(***************************************************************************)
(* Email relay worker: the run lock (lock.ts), the poller (poller.ts), the *)
(* per-message pipeline (processor.ts, assign.ts) and the two entry points *)
(* (run-cron.ts, process-one.ts), modelled as processes over a shared      *)
(* store.  Every `await` of the source is one step of a process, so that   *)
(* steps of different processes can interleave where the source allows it. *)
(***************************************************************************)
EXTENDS Integers, Sequences, FiniteSets, TLC

\* ---------------------------------------------------------------- bounds
\* Scheduled runs stop picking up a message whose attempt counter reached this value.
MaxAttempts == 4
\* Manual replays (process-one) of a message stop at this counter value.
MaxReplays == 3
\* The clock stops at this minute.
MaxTime == 7
\* The latest minute at which an agent of an initial roster was last assigned.
MaxStamp == 3
\* The longest text handed to the parsers, in lines.
MaxLines == 2
\* The most records of earlier runs the store holds besides the mailbox's.
MaxBacklog == 9
\* The most characters a phone string carries before its first group of digits.
MaxPad == 2
\* The most failed calls and crashes before failures stop, where they are counted.
MaxFaults == 2
\* The largest MAX_MESSAGES_PER_RUN a deployment sets below the default.
MaxCap == 2

\* ------------------------------------------------------ program constants
\* lock.ts: LOCK_TTL_MS = 5 * 60 * 1000; the model's clock counts minutes.
LOCK_TTL == 5
\* run-cron.ts: retryFailedMessages(gmail, 3)
RETRY_MAX_ATTEMPTS == 3
\* processor.ts: take: 10
RETRY_TAKE == 10
\* poller.ts: DEFAULT_MAX_MESSAGES = 50 (also run-cron.ts MAX_MESSAGES_PER_RUN default)
DEFAULT_MAX_MESSAGES == 50

\* A null column or an undefined local.
Null == "null"
\* A null timestamp column (replySentAt, lastAssignedAt, lastAttemptAt).
NoTime == -1
\* new Date(0), the expiry releaseLock writes.
Epoch == 0

\* ------------------------------------------------------------- universes
Workers == {"w1", "w2"}
Msgs == {"m1", "m2", "m3"}
Agents == {"a1", "a2", "a3"}

\* What extractLeadData yields for each message of the mailbox: m1 and m2 are two
\* messages of the same lead (m2 leaves the name unset), m3 holds no usable email,
\* for which parseLeadFromText throws.
NoLead == [email |-> Null, firstName |-> Null, lastName |-> Null, phone |-> Null]

LeadOf(m) ==
    CASE m = "m1" -> [email |-> "e1", firstName |-> "Ann", lastName |-> "Lee", phone |-> Null]
      [] m = "m2" -> [email |-> "e1", firstName |-> Null, lastName |-> "Ray", phone |-> "5551234567"]
      [] OTHER    -> NoLead

Emails == {LeadOf(m).email : m \in Msgs} \ {Null}

VARIABLES
    now,      \* the wall clock, in minutes
    lock,     \* the SystemLock row "email_processor"
    pm,       \* ProcessedMessage rows, by messageId
    leads,    \* Lead rows, by email
    agents,   \* Agent rows, by id
    inbox,    \* the messages the mailbox holds
    unread,   \* those of them that carry the UNREAD label
    wk,       \* each process: its position and the locals of the functions it is in
    sent,     \* history: replies handed to the outbound transport, per recipient email
    firstOk,  \* history: the messages whose first processMessage invocation returned success
    everSuccess, \* history: the messages whose record was written SUCCESS at some time
    touched,  \* history: the messages for which a step of the try block has taken effect
    initialAgents, \* history: the Agent rows before the first run
    text,     \* parseLeadFromText: the text it is given
    subject,  \* parseLeadFromText: the subject it is given
    results,  \* parseLeadFromText: what the parsers tried so far returned, in order
    outcome,  \* parseLeadFromText: the lead it returned or the error it threw
    rawPhone, \* the validators: the phone string they are given
    shown,    \* the validators: what they returned for it
    faults,   \* the failed calls and crashes so far, where they are counted
    named,    \* history: the agent named in the last reply sent to each lead email
    config    \* the deployment: MAX_MESSAGES_PER_RUN, the order messages.list returns,
              \* and whether runs are followed without end

vars == <<now, lock, pm, leads, agents, inbox, unread, wk, sent, firstOk, everSuccess, touched,
          initialAgents, text, subject, results, outcome, rawPhone, shown,
          faults, named, config>>

auxVars == <<faults, named, config>>

parserVars == <<text, subject, results, outcome, rawPhone, shown>>

storeVars == <<pm, leads, agents>>
outcomeVars == <<sent, firstOk, everSuccess>>
histVars == <<outcomeVars, touched, initialAgents>>

\* ------------------------------------------------------------ initial rows
NoLock == [exists |-> FALSE, lockedBy |-> Null, expiresAt |-> NoTime]

NoEntry == [exists |-> FALSE, attempts |-> 0, lastAttemptAt |-> NoTime,
            status |-> Null, errorLog |-> Null]

NoLeadRow == [exists |-> FALSE, firstName |-> Null, lastName |-> Null, phone |-> Null,
              sourceMessage |-> Null, assignedAgentId |-> Null, assignedAt |-> NoTime,
              replySentAt |-> NoTime]

\* seed-agents.ts creates agents active, never assigned.
SeededAgent == [isActive |-> TRUE, lastAssignedAt |-> NoTime, assignedCount |-> 0]

NoSnapshot == [exists |-> FALSE, firstName |-> Null, lastName |-> Null, phone |-> Null]

\* The process has not ended through process.exit.
NoExit == -1
\* Failed calls and crashes are not counted.
NoCount == -1

\* MAX_MESSAGES_PER_RUN is not set; messages.list returns m1, m2, m3 in this order;
\* runs are followed until an attempt counter reaches MaxAttempts.
DefaultConfig == [maxMessages |-> DEFAULT_MAX_MESSAGES, listOrder |-> <<"m1", "m2", "m3">>,
                  endless |-> FALSE]

\* No ProcessResult has been returned to the caller yet.
NoResult == [returned |-> FALSE, messageId |-> Null, success |-> FALSE, error |-> Null]

IdleWorker == [pc |-> "idle", ret |-> Null, messageId |-> Null, attempts |-> 0,
               agent |-> Null, existingLead |-> NoSnapshot, errorMessage |-> Null,
               messages |-> <<>>, failedMessages |-> <<>>, results |-> <<>>,
               agentsBefore |-> Null,
               lockNow |-> NoTime, lockAcquired |-> FALSE,
               result |-> NoResult, alertError |-> FALSE, lockError |-> FALSE,
               extended |-> Null,
               fatal |-> Null, exitCode |-> NoExit]

\* What a recognizer returns: null, or the lead it read (the name fields and
\* rawData, which no recognizer reads back, are left out).
NoMatch == [matched |-> FALSE, email |-> << >>, phone |-> << >>, source |-> "none"]

\* parseLeadFromText has not returned.
Pending == [done |-> FALSE, lead |-> NoMatch, error |-> Null]

\* The validators have not been called.
NotShown == [done |-> FALSE, normalized |-> << >>, valid |-> FALSE, formatted |-> << >>,
             again |-> << >>, back |-> << >>]

\* No text has been handed to the parsers, no phone to the validators.
ParserIdle ==
    /\ text = << >>
    /\ subject = << >>
    /\ results = << >>
    /\ outcome = Pending
    /\ rawPhone = << >>
    /\ shown = NotShown

InitStore ==
    /\ now = 1
    /\ lock = NoLock
    /\ pm = [m \in Msgs |-> NoEntry]
    /\ leads = [e \in Emails |-> NoLeadRow]
    /\ wk = [p \in Workers |-> IdleWorker]
    /\ sent = [e \in Emails |-> 0]
    /\ firstOk = [m \in Msgs |-> FALSE]
    /\ everSuccess = [m \in Msgs |-> FALSE]
    /\ touched = {}
    /\ faults = NoCount
    /\ named = [e \in Emails |-> Null]
    /\ config = DefaultConfig

\* A failed call or a crash more, where they are counted.
Counted(n) == IF n = NoCount THEN n ELSE n + 1

\* ------------------------------------------------------------- helpers
Range(s) == {s[i] : i \in 1..Len(s)}

\* The locals of processMessage go out of scope when it returns.
Returned(w, pcAfter) ==
    [w EXCEPT !.pc = pcAfter, !.ret = Null, !.messageId = Null, !.attempts = 0,
              !.agent = Null, !.existingLead = NoSnapshot, !.errorMessage = Null,
              !.agentsBefore = Null]

\* Where the caller goes on after processMessage returns.
ReturnPc(w) ==
    CASE w.ret = "primary" -> "primary"
      [] w.ret = "retry"   -> "retry"
      [] w.ret = "poll"    -> "poll"
      [] OTHER             -> "idle"

\* process.exit(code): the process is gone; what is left of it is its exit code,
\* whether it had got the lock, whether a lock call of it logged a store error
\* and, for a run ended by an exception, where the exception came from.
Exited(w, code) ==
    [IdleWorker EXCEPT !.exitCode = code, !.fatal = w.fatal,
                       !.lockAcquired = w.lockAcquired, !.lockError = w.lockError]

\* processMessage returns {success, error}: run-cron pushes the result (results
\* holds the messageId of each) and goes on with its loop, process-one prints it
\* and exits 0.
Delivered(w, success, error) ==
    IF w.ret = "manual"
    THEN Exited(w, 0)
    ELSE [Returned(w, ReturnPc(w)) EXCEPT
             !.result = [returned |-> TRUE, messageId |-> w.messageId,
                         success |-> success, error |-> error],
             !.results = Append(@, w.messageId)]

\* ------------------------------------------------- processMessage, step 1
\* Where runs are followed without end the attempt counter stops counting at
\* MaxAttempts, above every value the code compares it with.
Capped(n) == IF config.endless /\ n > MaxAttempts THEN MaxAttempts ELSE n

\* existingEntry = findUnique; attempts = (existingEntry?.attempts ?? 0) + 1
\* (agentsBefore keeps the Agent rows as they are at this first call, for the record).
PM_FindEntry(p) ==
    /\ wk[p].pc = "pm_find"
    /\ wk' = [wk EXCEPT ![p].pc = "pm_upsert",
                        ![p].agentsBefore = agents,
                        ![p].attempts =
                            Capped((IF pm[wk[p].messageId].exists
                                    THEN pm[wk[p].messageId].attempts ELSE 0) + 1)]
    /\ UNCHANGED <<now, lock, storeVars, inbox, unread, histVars, auxVars, parserVars>>

UpsertedEntry_NotWritten(row, attempts, t) == row

UpsertedEntry_KeepError(row, attempts, t) ==
    IF row.exists
    THEN [row EXCEPT !.attempts = attempts, !.lastAttemptAt = t, !.status = "PROCESSING"]
    ELSE [exists |-> TRUE, attempts |-> 1, lastAttemptAt |-> t,
          status |-> "PROCESSING", errorLog |-> Null]

\* The row processedMessage.upsert leaves: the update branch writes the local
\* attempts, the create branch writes 1.
UpsertedEntry(row, attempts, t) ==
    IF row.exists
    THEN [row EXCEPT !.attempts = attempts, !.lastAttemptAt = t,
                     !.status = "PROCESSING", !.errorLog = Null]
    ELSE [exists |-> TRUE, attempts |-> 1, lastAttemptAt |-> t,
          status |-> "PROCESSING", errorLog |-> Null]

PM_UpsertEntry(p) ==
    /\ wk[p].pc = "pm_upsert"
    /\ pm' = [pm EXCEPT ![wk[p].messageId] = UpsertedEntry(@, wk[p].attempts, now)]
    /\ wk' = [wk EXCEPT ![p].pc = "extract"]
    /\ UNCHANGED <<now, lock, leads, agents, inbox, unread, histVars, auxVars, parserVars>>

\* ------------------------------------------------- processMessage, step 2
\* The error an awaited call of the try block raises when it fails: what the
\* catch block renders of it (error?.stack || error?.message || String(error)).
ErrAt(pc) ==
    CASE pc = "extract" -> "fetch failed"
      [] pc = "send"    -> "send failed"
      [] pc = "ack"     -> "acknowledgment failed"
      [] OTHER          -> "store call failed"

\* extractLeadData: fetch the raw message, parse it; parseLeadFromText throws when
\* no parser yields a valid email.
PM_Extract(p) ==
    /\ wk[p].pc = "extract"
    /\ wk' = IF LeadOf(wk[p].messageId) = NoLead
             THEN [wk EXCEPT ![p].pc = "catch", ![p].errorMessage = "no lead extractable"]
             ELSE [wk EXCEPT ![p].pc = "agent_find"]
    /\ touched' = touched \cup {wk[p].messageId}
    /\ UNCHANGED <<now, lock, storeVars, inbox, unread, outcomeVars, initialAgents, auxVars, parserVars>>

\* ------------------------------------------------- pickAgentRoundRobin
ActiveAgents_All == Agents

\* where: {isActive: true}
ActiveAgents == {a \in Agents : agents[a].isActive}

NullsFirst_Last == FALSE

\* Where the store puts a null lastAssignedAt in an ascending order: first, with
\* the never-assigned agents ahead of all others.
NullsFirst == TRUE

\* The place of a lastAssignedAt value in the ascending order of the store.
AscKey(t) == IF t # NoTime THEN t ELSE IF NullsFirst THEN NoTime ELSE MaxTime + 1

OldestAssigned_Newest ==
    {a \in ActiveAgents :
        \A b \in ActiveAgents :
            AscKey(agents[a].lastAssignedAt) >= AscKey(agents[b].lastAssignedAt)}

\* findFirst({where: isActive, orderBy: lastAssignedAt asc}): an active agent no
\* other active agent sorts before; the store picks among equal timestamps.
OldestAssigned ==
    {a \in ActiveAgents :
        \A b \in ActiveAgents :
            AscKey(agents[a].lastAssignedAt) <= AscKey(agents[b].lastAssignedAt)}

PickAgent_Find(p) ==
    /\ wk[p].pc = "agent_find"
    /\ IF OldestAssigned = {}
       THEN wk' = [wk EXCEPT ![p].pc = "catch", ![p].errorMessage = "no active agents"]
       ELSE \E a \in OldestAssigned :
                wk' = [wk EXCEPT ![p].pc = "agent_update", ![p].agent = a]
    /\ UNCHANGED <<now, lock, storeVars, inbox, unread, histVars, auxVars, parserVars>>

Assigned_CountFromRead(row, t) == [row EXCEPT !.lastAssignedAt = t, !.assignedCount = 1]

\* The row agent.update leaves: lastAssignedAt: new Date(), assignedCount:
\* {increment: 1} (the increment is made by the store on the row as it is).
Assigned(row, t) == [row EXCEPT !.lastAssignedAt = t, !.assignedCount = @ + 1]

PickAgent_Update(p) ==
    /\ wk[p].pc = "agent_update"
    /\ agents' = [agents EXCEPT ![wk[p].agent] = Assigned(@, now)]
    /\ wk' = [wk EXCEPT ![p].pc = "lead_find"]
    /\ touched' = touched \cup {wk[p].messageId}
    /\ UNCHANGED <<now, lock, pm, leads, inbox, unread, outcomeVars, initialAgents, auxVars, parserVars>>

\* ------------------------------------------------- processMessage, step 4
PM_FindLead(p) ==
    LET row == leads[LeadOf(wk[p].messageId).email] IN
    /\ wk[p].pc = "lead_find"
    /\ wk' = [wk EXCEPT ![p].pc = "lead_upsert",
                        ![p].existingLead =
                            IF row.exists
                            THEN [exists |-> TRUE, firstName |-> row.firstName,
                                  lastName |-> row.lastName, phone |-> row.phone]
                            ELSE NoSnapshot]
    /\ UNCHANGED <<now, lock, storeVars, inbox, unread, histVars, auxVars, parserVars>>

Merged_Incoming(incoming, snapshot, snapField, column) == incoming

\* incoming ?? existingLead?.field, as the update branch writes it: an undefined
\* value (no incoming value and no row read before) leaves the column as it is.
Merged(incoming, snapshot, snapField, column) ==
    IF incoming # Null THEN incoming
    ELSE IF snapshot.exists THEN snapField
    ELSE column

\* The row lead.upsert leaves.
UpsertedLead(row, lead, snapshot, messageId, agent, t) ==
    IF row.exists
    THEN [row EXCEPT
            !.firstName = Merged(lead.firstName, snapshot, snapshot.firstName, row.firstName),
            !.lastName = Merged(lead.lastName, snapshot, snapshot.lastName, row.lastName),
            !.phone = Merged(lead.phone, snapshot, snapshot.phone, row.phone),
            !.sourceMessage = messageId,
            !.assignedAgentId = agent,
            !.assignedAt = t]
    ELSE [exists |-> TRUE, firstName |-> lead.firstName, lastName |-> lead.lastName,
          phone |-> lead.phone, sourceMessage |-> messageId, assignedAgentId |-> agent,
          assignedAt |-> t, replySentAt |-> NoTime]

ReplyNeeded_Always(upsertedLead) == TRUE

ReplyNeeded_Never(upsertedLead) == FALSE

\* Step 5's test, on the row the upsert returned.
ReplyNeeded(upsertedLead) == upsertedLead.replySentAt = NoTime

PM_UpsertLead(p) ==
    LET m == wk[p].messageId
        e == LeadOf(m).email
        upsertedLead == UpsertedLead(leads[e], LeadOf(m), wk[p].existingLead, m, wk[p].agent, now)
    IN
    /\ wk[p].pc = "lead_upsert"
    /\ leads' = [leads EXCEPT ![e] = upsertedLead]
    /\ wk' = [wk EXCEPT ![p].pc = IF ReplyNeeded(upsertedLead) THEN "send" ELSE "mark_success"]
    /\ touched' = touched \cup {m}
    /\ UNCHANGED <<now, lock, pm, agents, inbox, unread, outcomeVars, initialAgents, auxVars, parserVars>>

\* ------------------------------------------------- processMessage, step 5
PM_SendReply(p) ==
    /\ wk[p].pc = "send"
    /\ sent' = [sent EXCEPT ![LeadOf(wk[p].messageId).email] = @ + 1]
    /\ named' = [named EXCEPT ![LeadOf(wk[p].messageId).email] = wk[p].agent]
    /\ wk' = [wk EXCEPT ![p].pc = "reply_mark"]
    /\ touched' = touched \cup {wk[p].messageId}
    /\ UNCHANGED <<now, lock, storeVars, inbox, unread, firstOk, everSuccess, initialAgents, faults, config, parserVars>>

PM_MarkReplied(p) ==
    /\ wk[p].pc = "reply_mark"
    /\ leads' = [leads EXCEPT ![LeadOf(wk[p].messageId).email].replySentAt = now]
    /\ wk' = [wk EXCEPT ![p].pc = "mark_success"]
    /\ touched' = touched \cup {wk[p].messageId}
    /\ UNCHANGED <<now, lock, pm, agents, inbox, unread, outcomeVars, initialAgents, auxVars, parserVars>>

\* ------------------------------------------------- processMessage, steps 6 and 7
PM_MarkSuccess(p) ==
    /\ wk[p].pc = "mark_success"
    /\ pm' = [pm EXCEPT ![wk[p].messageId].status = "SUCCESS",
                        ![wk[p].messageId].errorLog = Null]
    /\ everSuccess' = [everSuccess EXCEPT ![wk[p].messageId] = TRUE]
    /\ wk' = [wk EXCEPT ![p].pc = "ack"]
    /\ UNCHANGED <<now, lock, leads, agents, inbox, unread, sent, firstOk, touched, initialAgents, auxVars, parserVars>>

\* messages.modify removes UNREAD; processMessage returns success: true.
PM_Acknowledge(p) ==
    /\ wk[p].pc = "ack"
    /\ unread' = unread \ {wk[p].messageId}
    /\ firstOk' = IF wk[p].attempts = 1
                  THEN [firstOk EXCEPT ![wk[p].messageId] = TRUE]
                  ELSE firstOk
    /\ wk' = [wk EXCEPT ![p] = Delivered(@, TRUE, Null)]
    /\ touched' = touched \cup {wk[p].messageId}
    /\ UNCHANGED <<now, lock, storeVars, inbox, sent, everSuccess, initialAgents, auxVars, parserVars>>

\* ------------------------------------------------- processMessage, the catch block
TryPcs == {"extract", "agent_find", "agent_update", "lead_find", "lead_upsert",
           "send", "reply_mark", "mark_success", "ack"}

\* An awaited call of the try block fails (transport or store error): its effect
\* does not take place and control passes to the catch block.
PM_Throw(p) ==
    /\ faults < MaxFaults
    /\ wk[p].pc \in TryPcs
    /\ wk' = [wk EXCEPT ![p].pc = "catch", ![p].errorMessage = ErrAt(wk[p].pc)]
    /\ UNCHANGED <<now, lock, storeVars, inbox, unread, histVars, named, config, parserVars>>
    /\ faults' = Counted(faults)

PM_MarkFailed(p) ==
    /\ wk[p].pc = "catch"
    /\ pm' = [pm EXCEPT ![wk[p].messageId].status = "FAILED",
                        ![wk[p].messageId].errorLog = wk[p].errorMessage]
    /\ wk' = [wk EXCEPT ![p].pc = "alert"]
    /\ UNCHANGED <<now, lock, leads, agents, inbox, unread, histVars, auxVars, parserVars>>

\* await notifyFailure(...) goes through; processMessage returns success: false
\* with the error the catch block rendered.
PM_Alert(p) ==
    /\ wk[p].pc = "alert"
    /\ wk' = [wk EXCEPT ![p] = Delivered(@, FALSE, @.errorMessage)]
    /\ UNCHANGED <<now, lock, storeVars, inbox, unread, histVars, auxVars, parserVars>>

\* An exception leaves processMessage (a call outside its try block failed): the
\* scheduled run's catch rethrows it and its finally releases the lock, the rest
\* of the run is not done; process-one exits 1.
Rejected(w) ==
    IF w.ret = "manual"
    THEN Exited([w EXCEPT !.fatal = "message"], 1)
    ELSE Returned([w EXCEPT !.messages = <<>>, !.failedMessages = <<>>,
                            !.fatal = "message"], "release")

AlertCaught_Rethrown(w) == Rejected(w)

\* .catch((alertError) => console.error(...)): the rejection of notifyFailure is
\* logged and processMessage returns as it does after a delivered alert.
AlertCaught(w) == Delivered([w EXCEPT !.alertError = TRUE], FALSE, w.errorMessage)

\* notifyFailure rejects (a webhook payload cannot be built or sent).
PM_AlertFailed(p) ==
    /\ faults < MaxFaults
    /\ wk[p].pc = "alert"
    /\ wk' = [wk EXCEPT ![p] = AlertCaught(@)]
    /\ UNCHANGED <<now, lock, storeVars, inbox, unread, histVars, named, config, parserVars>>
    /\ faults' = Counted(faults)

\* ------------------------------------------------- process-one.ts
\* npm run process -- <messageId>: no lock is taken.
ProcessOne_Start(p, m) ==
    /\ wk[p].pc = "idle"
    /\ m \in inbox
    /\ pm[m].attempts < MaxReplays
    /\ wk' = [wk EXCEPT ![p] = [IdleWorker EXCEPT !.pc = "pm_find", !.ret = "manual",
                                                   !.messageId = m]]
    /\ UNCHANGED <<now, lock, storeVars, inbox, unread, histVars, auxVars, parserVars>>

\* The process dies (killed, host lost) wherever it is: what it wrote stays, the
\* rest of its work is not done.
Crash(p) ==
    /\ faults < MaxFaults
    /\ wk[p].pc # "idle"
    /\ wk' = [wk EXCEPT ![p] = IdleWorker]
    /\ UNCHANGED <<now, lock, storeVars, inbox, unread, histVars, named, config, parserVars>>
    /\ faults' = Counted(faults)

\* One step of processMessage.
PM_Step(p) ==
    \/ PM_FindEntry(p)
    \/ PM_UpsertEntry(p)
    \/ PM_Extract(p)
    \/ PickAgent_Find(p)
    \/ PickAgent_Update(p)
    \/ PM_FindLead(p)
    \/ PM_UpsertLead(p)
    \/ PM_SendReply(p)
    \/ PM_MarkReplied(p)
    \/ PM_MarkSuccess(p)
    \/ PM_Acknowledge(p)
    \/ PM_MarkFailed(p)
    \/ PM_Alert(p)

\* A store call outside the try block fails (findUnique or upsert of step 1, the
\* update of the catch block): processMessage rejects.
PM_Reject(p) ==
    /\ faults < MaxFaults
    /\ wk[p].pc \in {"pm_find", "pm_upsert", "catch"}
    /\ wk' = [wk EXCEPT ![p] = Rejected(@)]
    /\ UNCHANGED <<now, lock, storeVars, inbox, unread, histVars, named, config, parserVars>>
    /\ faults' = Counted(faults)

\* ------------------------------------------------- lock.ts
\* acquireLock(LOCK_NAME) is called first thing by main: now = new Date() is taken
\* at the call, before the lock row is read.
Cron_Start(p) ==
    /\ wk[p].pc = "idle"
    /\ config.endless \/ \A m \in DOMAIN pm : pm[m].attempts < MaxAttempts
    /\ wk' = [wk EXCEPT ![p] = [IdleWorker EXCEPT !.pc = "acq_read", !.lockNow = now]]
    /\ UNCHANGED <<now, lock, storeVars, inbox, unread, histVars, auxVars, parserVars>>

LockHeld_NoExpiry(existingLock, t) == existingLock.exists /\ existingLock.lockedBy # Null

LockHeld_AtOrAfter(existingLock, t) == existingLock.exists /\ existingLock.expiresAt >= t

\* existingLock && existingLock.expiresAt > now
LockHeld(existingLock, t) == existingLock.exists /\ existingLock.expiresAt > t

ExitQuietly_ThroughFinally(w) == [w EXCEPT !.pc = "release"]

\* if (!lockAcquired) { ...; process.exit(0) }: main ends before its try block.
ExitQuietly(w) == Exited(w, 0)

\* findUnique, then the test: a held lock makes acquireLock return false and main
\* exit(0); otherwise the upsert is next.
Lock_AcquireRead(p) ==
    /\ wk[p].pc = "acq_read"
    /\ wk' = IF LockHeld(lock, wk[p].lockNow)
             THEN [wk EXCEPT ![p] = ExitQuietly(@)]
             ELSE [wk EXCEPT ![p].pc = "acq_upsert"]
    /\ UNCHANGED <<now, lock, storeVars, inbox, unread, histVars, auxVars, parserVars>>

\* The row systemLock.upsert leaves (update and create write the same columns).
LockRow(workerId, t) == [exists |-> TRUE, lockedBy |-> workerId, expiresAt |-> t + LOCK_TTL]

Lock_AcquireUpsert(p) ==
    /\ wk[p].pc = "acq_upsert"
    /\ lock' = LockRow(p, wk[p].lockNow)
    /\ wk' = [wk EXCEPT ![p].pc = "poll", ![p].lockAcquired = TRUE]
    /\ UNCHANGED <<now, storeVars, inbox, unread, histVars, auxVars, parserVars>>

\* A store error inside acquireLock is caught there: it returns false, main exits.
Lock_AcquireError(p) ==
    /\ faults < MaxFaults
    /\ wk[p].pc \in {"acq_read", "acq_upsert"}
    /\ wk' = [wk EXCEPT ![p] = ExitQuietly([@ EXCEPT !.lockError = TRUE])]
    /\ UNCHANGED <<now, lock, storeVars, inbox, unread, histVars, named, config, parserVars>>
    /\ faults' = Counted(faults)

Released_ExpiryOnly(row) ==
    IF row.exists THEN [row EXCEPT !.expiresAt = Epoch] ELSE row

\* The row systemLock.update leaves in releaseLock; update of a missing row throws,
\* which releaseLock catches.
Released(row) ==
    IF row.exists THEN [row EXCEPT !.expiresAt = Epoch, !.lockedBy = Null] ELSE row

\* main().then(() => process.exit(0)).catch(... process.exit(1)): the exit code
\* of a run that got past the lock.
ExitCodeOf(w) == IF w.fatal = Null THEN 0 ELSE 1

\* finally { await releaseLock(LOCK_NAME) }, then the process exits.
Lock_Release(p) ==
    /\ wk[p].pc = "release"
    /\ lock' = Released(lock)
    /\ wk' = [wk EXCEPT ![p] = Exited(@, ExitCodeOf(@))]
    /\ UNCHANGED <<now, storeVars, inbox, unread, histVars, auxVars, parserVars>>

\* The update of releaseLock fails: caught and logged, the row stays as it is.
Lock_ReleaseError(p) ==
    /\ faults < MaxFaults
    /\ wk[p].pc = "release"
    /\ wk' = [wk EXCEPT ![p] = Exited([@ EXCEPT !.lockError = TRUE], ExitCodeOf(@))]
    /\ UNCHANGED <<now, lock, storeVars, inbox, unread, histVars, named, config, parserVars>>
    /\ faults' = Counted(faults)

\* ------------------------------------------------- lock.ts, extendLock
\* extendLock(lockName, workerId) is exported for callers that hold the lock for
\* long ("call periodically during long processing"): here a run that got the lock
\* calls it before it polls, and a process that is in no run calls it as well.
Extend_Start(p) ==
    /\ wk[p].pc \in {"idle", "poll"}
    /\ wk' = [wk EXCEPT ![p] =
                 IF @.pc = "poll"
                 THEN [@ EXCEPT !.pc = "ext_read", !.ret = "poll", !.extended = Null]
                 ELSE [IdleWorker EXCEPT !.pc = "ext_read", !.ret = "api"]]
    /\ UNCHANGED <<now, lock, storeVars, inbox, unread, histVars, auxVars, parserVars>>

\* extendLock returns r ("true" or "false") to its caller.
ExtendReturned(w, r) == [w EXCEPT !.pc = ReturnPc(w), !.ret = Null, !.extended = r]

\* lock?.lockedBy !== workerId, on the row findUnique returned (none: undefined).
NotOwner(row, workerId) == ~(row.exists /\ row.lockedBy = workerId)

Extend_Read(p) ==
    /\ wk[p].pc = "ext_read"
    /\ wk' = IF NotOwner(lock, p)
             THEN [wk EXCEPT ![p] = ExtendReturned(@, "false")]
             ELSE [wk EXCEPT ![p].pc = "ext_update"]
    /\ UNCHANGED <<now, lock, storeVars, inbox, unread, histVars, auxVars, parserVars>>

\* The row systemLock.update leaves in extendLock: expiresAt = Date.now() + TTL,
\* taken when the update is made; no condition on the holder.
Extended(row, t) == [row EXCEPT !.expiresAt = t + LOCK_TTL]

\* update of a missing row throws, which extendLock catches: false.
Extend_Update(p) ==
    /\ wk[p].pc = "ext_update"
    /\ lock' = IF lock.exists THEN Extended(lock, now) ELSE lock
    /\ wk' = [wk EXCEPT ![p] = ExtendReturned(@, IF lock.exists THEN "true" ELSE "false")]
    /\ UNCHANGED <<now, storeVars, inbox, unread, histVars, auxVars, parserVars>>

\* A store call of extendLock fails: caught, false.
Extend_Error(p) ==
    /\ wk[p].pc \in {"ext_read", "ext_update"}
    /\ wk' = [wk EXCEPT ![p] = ExtendReturned(@, "false")]
    /\ UNCHANGED <<now, lock, storeVars, inbox, unread, histVars, auxVars, parserVars>>

\* ------------------------------------------------- poller.ts
\* The order in which messages.list returns the mailbox's messages.
ListOrder == config.listOrder

Take(s, n) == SubSeq(s, 1, IF Len(s) < n THEN Len(s) ELSE n)

\* messages.list({q: "is:unread", maxResults})
ListUnread(maxMessages) ==
    LET IsUnread(m) == m \in unread IN Take(SelectSeq(ListOrder, IsUnread), maxMessages)

AlreadyProcessed_OrFailed(row) == row.exists /\ row.status \in {"SUCCESS", "FAILED"}

\* The rows pollUnreadMessages looks up to drop messages from the list.
AlreadyProcessed(row) == row.exists /\ row.status = "SUCCESS"

pollUnreadMessages(maxMessages) ==
    LET Unprocessed(m) == ~AlreadyProcessed(pm[m]) IN
    SelectSeq(ListUnread(maxMessages), Unprocessed)

\* main, step 3: with no message to process the loop is skipped.
Cron_Poll(p) ==
    /\ wk[p].pc = "poll"
    /\ wk' = [wk EXCEPT ![p].pc = "primary",
                        ![p].messages = pollUnreadMessages(config.maxMessages)]
    /\ UNCHANGED <<now, lock, storeVars, inbox, unread, histVars, auxVars, parserVars>>

\* messages.list, the findMany of the poller or the findMany of the retry pass
\* fails: main's catch rethrows, its finally releases the lock.
Cron_Fatal(p) ==
    /\ faults < MaxFaults
    /\ wk[p].pc \in {"poll", "retry_query"}
    /\ wk' = [wk EXCEPT ![p].pc = "release", ![p].fatal = "coordinator"]
    /\ UNCHANGED <<now, lock, storeVars, inbox, unread, histVars, named, config, parserVars>>
    /\ faults' = Counted(faults)

\* main, step 4: for await (const message of iterateMessages(messages))
Cron_PrimaryNext(p) ==
    /\ wk[p].pc = "primary"
    /\ wk' = IF wk[p].messages = <<>>
             THEN [wk EXCEPT ![p].pc = "retry_query"]
             ELSE [wk EXCEPT ![p].pc = "pm_find", ![p].ret = "primary",
                             ![p].result = NoResult, ![p].alertError = FALSE,
                             ![p].messageId = Head(wk[p].messages),
                             ![p].messages = Tail(wk[p].messages)]
    /\ UNCHANGED <<now, lock, storeVars, inbox, unread, histVars, auxVars, parserVars>>

\* ------------------------------------------------- retryFailedMessages
RetryEligible_AtMost(row, maxAttempts) ==
    row.exists /\ row.status = "FAILED" /\ row.attempts <= maxAttempts

\* where: {status: "FAILED", attempts: {lt: maxAttempts}}
RetryEligible(row, maxAttempts) ==
    row.exists /\ row.status = "FAILED" /\ row.attempts < maxAttempts

\* orderBy: {lastAttemptAt: "asc"}: every order of the eligible rows in which no
\* row comes before one attempted earlier (the store orders equal timestamps).
RECURSIVE OldestFirst(_)
OldestFirst(S) ==
    IF S = {}
    THEN {<< >>}
    ELSE UNION {{<<m>> \o s : s \in OldestFirst(S \ {m})} :
                   m \in {x \in S : \A y \in S : pm[x].lastAttemptAt <= pm[y].lastAttemptAt}}

failedMessages_NoTake(maxAttempts) ==
    OldestFirst({m \in DOMAIN pm : RetryEligible(pm[m], maxAttempts)})

\* The lists findMany may return: the first RETRY_TAKE rows of the ordered rows.
failedMessages(maxAttempts) ==
    {Take(s, RETRY_TAKE) :
        s \in OldestFirst({m \in DOMAIN pm : RetryEligible(pm[m], maxAttempts)})}

Retry_Query(p) ==
    /\ wk[p].pc = "retry_query"
    /\ \E batch \in failedMessages(RETRY_MAX_ATTEMPTS) :
           wk' = [wk EXCEPT ![p].pc = "retry", ![p].failedMessages = batch]
    /\ UNCHANGED <<now, lock, storeVars, inbox, unread, histVars, auxVars, parserVars>>

\* for (const msg of failedMessages) processMessage(gmail, msg.messageId); after the
\* last one main reports and its finally releases the lock.
Cron_RetryNext(p) ==
    /\ wk[p].pc = "retry"
    /\ wk' = IF wk[p].failedMessages = <<>>
             THEN [wk EXCEPT ![p].pc = "release"]
             ELSE [wk EXCEPT ![p].pc = "pm_find", ![p].ret = "retry",
                             ![p].result = NoResult, ![p].alertError = FALSE,
                             ![p].messageId = Head(wk[p].failedMessages),
                             ![p].failedMessages = Tail(wk[p].failedMessages)]
    /\ UNCHANGED <<now, lock, storeVars, inbox, unread, histVars, auxVars, parserVars>>

\* One step of a scheduled run outside processMessage.
Cron_Step(p) ==
    \/ Cron_Start(p)
    \/ Lock_AcquireRead(p)
    \/ Lock_AcquireUpsert(p)
    \/ Cron_Poll(p)
    \/ Cron_PrimaryNext(p)
    \/ Retry_Query(p)
    \/ Cron_RetryNext(p)
    \/ Lock_Release(p)

\* Time passes.
Tick ==
    /\ now < MaxTime
    /\ now' = now + 1
    /\ UNCHANGED <<lock, storeVars, inbox, unread, wk, histVars, auxVars, parserVars>>

\* ------------------------------------------------- scheduled runs, one at a time
\* The scheduler starts a run when the one before has ended; any awaited call of
\* a message's processing may fail.  Runs follow one another within one clock
\* minute: the timestamps they write are equal, and the order the store gives rows
\* of equal timestamp is left open.
InitCron ==
    /\ InitStore
    /\ agents = [a \in Agents |-> [SeededAgent EXCEPT !.isActive = (a = "a1")]]
    /\ inbox = {"m1", "m3"}
    /\ unread = inbox
    /\ initialAgents = agents
    /\ ParserIdle

NextCron ==
    \/ Cron_Step("w1")
    \/ PM_Step("w1")
    \/ PM_Throw("w1")
    \/ PM_AlertFailed("w1")
    \/ PM_Reject("w1")
    \/ Cron_Fatal("w1")
    \/ Lock_AcquireError("w1")
    \/ Lock_ReleaseError("w1")

SpecCron == InitCron /\ [][NextCron]_vars

\* ------------------------------------------------- scheduled runs over a backlog
\* The store already holds records of messages earlier runs gave up on or
\* completed; their messages are no longer unread.  None of them yields a lead.
BacklogIds == <<"b1", "b2", "b3", "b4", "b5", "b6", "b7", "b8", "b9", "b10", "b11", "b12">>

Backlog == {BacklogIds[i] : i \in 1..MaxBacklog}

\* The record an earlier run left: one that failed below the ceiling, at it, or
\* one that completed.
OldEntry(status, attempts, t) ==
    [exists |-> TRUE, attempts |-> attempts, lastAttemptAt |-> t, status |-> status,
     errorLog |-> IF status = "FAILED" THEN "fetch failed" ELSE Null]

\* Timestamps of the earlier attempts, all different: position i of the store,
\* walked with a stride coprime to the modulus.
StampModulus == MaxBacklog + 4

Strides == {1, 3, StampModulus - 1}

StampAt(i, stride) == ((i * stride) % StampModulus) + 1

InitBacklog ==
    /\ now = StampModulus + 1
    /\ lock = NoLock
    /\ \E n \in 0..MaxBacklog, stride \in Strides :
       \E old \in {NoEntry, OldEntry("FAILED", 1, StampAt(MaxBacklog + 1, stride)),
                   OldEntry("FAILED", RETRY_MAX_ATTEMPTS, StampAt(MaxBacklog + 1, stride)),
                   OldEntry("SUCCESS", 1, StampAt(MaxBacklog + 1, stride))} :
           pm = [m \in Msgs \cup Backlog |->
                   IF m = "m2" THEN old
                   ELSE IF m \in Msgs THEN NoEntry
                   ELSE LET i == CHOOSE j \in 1..MaxBacklog : BacklogIds[j] = m IN
                        IF i <= n THEN OldEntry("FAILED", 1 + (i % 2), StampAt(i, stride))
                        ELSE IF i % 2 = 0
                             THEN OldEntry("FAILED", RETRY_MAX_ATTEMPTS, StampAt(i, stride))
                             ELSE OldEntry("SUCCESS", 1, StampAt(i, stride))]
    /\ leads = [e \in Emails |-> NoLeadRow]
    /\ agents = [a \in Agents |-> [SeededAgent EXCEPT !.isActive = (a = "a1")]]
    /\ inbox = {"m1", "m3"}
    /\ unread = inbox
    /\ wk = [p \in Workers |-> IdleWorker]
    /\ sent = [e \in Emails |-> 0]
    /\ firstOk = [m \in Msgs |-> FALSE]
    /\ everSuccess = [m \in Msgs |-> FALSE]
    /\ touched = {}
    /\ faults = NoCount
    /\ named = [e \in Emails |-> Null]
    /\ config = DefaultConfig
    /\ initialAgents = agents
    /\ ParserIdle

NextBacklog ==
    \/ Cron_Step("w1")
    \/ PM_Step("w1")

SpecBacklog == InitBacklog /\ [][NextBacklog]_vars

\* ------------------------------------------------- overlapping runs, empty mailbox
\* Schedule triggers fire while earlier runs are still going; a run may crash, a
\* lock call may fail, time passes.  The mailbox is empty, so a run that got the
\* lock polls, finds nothing to process or retry, and releases.
InitLock ==
    /\ InitStore
    /\ agents = [a \in Agents |-> SeededAgent]
    /\ inbox = {}
    /\ unread = {}
    /\ initialAgents = agents
    /\ ParserIdle

LockEnv(p) ==
    \/ Cron_Step(p)
    \/ Cron_Fatal(p)
    \/ Lock_AcquireError(p)
    \/ Lock_ReleaseError(p)
    \/ Crash(p)

\* The read and the upsert of acquireLock are two awaited calls: steps of another
\* run may fall between them.
NextLock ==
    \/ \E p \in Workers : LockEnv(p)
    \/ Tick

SpecLock == InitLock /\ [][NextLock]_vars

\* The same runs with every acquireLock call taken as one step: while a run is
\* inside acquireLock nothing else moves.
InAcquire(p) == wk[p].pc \in {"acq_read", "acq_upsert"}

NextLockAtomic ==
    \/ \E p \in Workers : (\A q \in Workers \ {p} : ~InAcquire(q)) /\ LockEnv(p)
    \/ (\A q \in Workers : ~InAcquire(q)) /\ Tick

SpecLockAtomic == InitLock /\ [][NextLockAtomic]_vars

\* ------------------------------------------------- overlapping runs that extend
\* The runs of SpecLockAtomic (every acquireLock call taken as one step), with
\* extendLock called by holders and by others; the two store calls of extendLock
\* are two awaited calls, between which other processes may move.
ExtendEnv(p) ==
    \/ LockEnv(p)
    \/ Extend_Start(p)
    \/ Extend_Read(p)
    \/ Extend_Update(p)
    \/ Extend_Error(p)

NextExtend ==
    \/ \E p \in Workers : (\A q \in Workers \ {p} : ~InAcquire(q)) /\ ExtendEnv(p)
    \/ (\A q \in Workers : ~InAcquire(q)) /\ Tick

SpecExtend == InitLock /\ [][NextExtend]_vars

\* ------------------------------------------------- sequential replays
\* processMessage invoked again and again by one operator, one invocation at a
\* time, any step of which may fail and any of which may be cut short by a crash.
InitReplay ==
    /\ InitStore
    /\ agents = [a \in Agents |-> [SeededAgent EXCEPT !.isActive = (a = "a1")]]
    /\ inbox = {"m1", "m2"}
    /\ unread = inbox
    /\ initialAgents = agents
    /\ ParserIdle

NextReplay ==
    \/ \E m \in Msgs : ProcessOne_Start("w1", m)
    \/ PM_Step("w1")
    \/ PM_Throw("w1")
    \/ PM_AlertFailed("w1")
    \/ Crash("w1")

SpecReplay == InitReplay /\ [][NextReplay]_vars

\* ------------------------------------------------- racing invocations
\* A manual replay beside another invocation (process-one takes no lock): two
\* processes, their steps interleaved in any order, every call succeeding.
InitRace ==
    /\ InitStore
    /\ agents = [a \in Agents |-> [SeededAgent EXCEPT !.isActive = (a = "a1")]]
    /\ inbox = {"m1", "m3"}
    /\ unread = inbox
    /\ initialAgents = agents
    /\ ParserIdle

NextRace ==
    \E p \in Workers :
        \/ \E m \in Msgs : ProcessOne_Start(p, m)
        \/ PM_Step(p)

SpecRace == InitRace /\ [][NextRace]_vars

\* ------------------------------------------------- scheduled runs that keep coming
\* One unread message that yields a lead, one active agent.  Calls fail and runs
\* are cut short by crashes MaxFaults times at most; a run is started whenever no
\* run is going, every started call returns and time passes between runs (a run
\* takes less than a minute).  A failure that leaves the lock row behind happens
\* early enough for the row to expire within the minutes the clock counts.
LockExpiresInTime == lock.exists => lock.expiresAt <= MaxTime

InitLive ==
    /\ now = 1
    /\ lock = NoLock
    /\ pm = [m \in Msgs |-> NoEntry]
    /\ leads = [e \in Emails |-> NoLeadRow]
    /\ wk = [p \in Workers |-> IdleWorker]
    /\ sent = [e \in Emails |-> 0]
    /\ firstOk = [m \in Msgs |-> FALSE]
    /\ everSuccess = [m \in Msgs |-> FALSE]
    /\ touched = {}
    /\ faults = 0
    /\ named = [e \in Emails |-> Null]
    /\ config = DefaultConfig
    /\ agents = [a \in Agents |-> [SeededAgent EXCEPT !.isActive = (a = "a1")]]
    /\ inbox = {"m1"}
    /\ unread = inbox
    /\ initialAgents = agents
    /\ ParserIdle

NextLive ==
    \/ Cron_Step("w1")
    \/ wk["w1"].pc = "idle" /\ Tick
    \/ PM_Step("w1")
    \/ PM_Throw("w1")
    \/ PM_AlertFailed("w1")
    \/ PM_Reject("w1")
    \/ Cron_Fatal("w1")
    \/ Lock_AcquireError("w1")
    \/ LockExpiresInTime /\ Lock_ReleaseError("w1")
    \/ LockExpiresInTime /\ Crash("w1")

SpecLive ==
    /\ InitLive
    /\ [][NextLive]_vars
    /\ WF_vars(Cron_Step("w1"))
    /\ WF_vars(PM_Step("w1"))
    /\ SF_vars(wk["w1"].pc = "idle" /\ Tick)

\* ------------------------------------------------- a capped poll
\* MAX_MESSAGES_PER_RUN is set below the number of unread messages, which
\* messages.list returns in some order.  Every call succeeds, runs follow one
\* another without end.
Orders == {o \in [1..Cardinality(Msgs) -> Msgs] : \A m \in Msgs : \E i \in DOMAIN o : o[i] = m}

InitCapped ==
    /\ now = 1
    /\ lock = NoLock
    /\ pm = [m \in Msgs |-> NoEntry]
    /\ leads = [e \in Emails |-> NoLeadRow]
    /\ wk = [p \in Workers |-> IdleWorker]
    /\ sent = [e \in Emails |-> 0]
    /\ firstOk = [m \in Msgs |-> FALSE]
    /\ everSuccess = [m \in Msgs |-> FALSE]
    /\ touched = {}
    /\ faults = NoCount
    /\ named = [e \in Emails |-> Null]
    /\ \E n \in 1..MaxCap, o \in Orders :
           config = [maxMessages |-> n, listOrder |-> o, endless |-> TRUE]
    /\ agents = [a \in Agents |-> [SeededAgent EXCEPT !.isActive = (a = "a1")]]
    /\ inbox = Msgs
    /\ unread = inbox
    /\ initialAgents = agents
    /\ ParserIdle

NextCapped ==
    \/ Cron_Step("w1")
    \/ PM_Step("w1")

SpecCapped ==
    /\ InitCapped
    /\ [][NextCapped]_vars
    /\ WF_vars(Cron_Step("w1"))
    /\ WF_vars(PM_Step("w1"))

\* ------------------------------------------------- rosters
\* An Agent row as a team in use may hold it: active or not, never assigned
\* (count 0) or last assigned at some minute in the past.
AgentRows ==
    {[isActive |-> b, lastAssignedAt |-> t, assignedCount |-> IF t = NoTime THEN 0 ELSE 1] :
        b \in BOOLEAN, t \in {NoTime} \cup (1..MaxStamp)}

\* Any roster, its assignments all made before the present minute, and a mailbox.
InitRoster(box) ==
    /\ now = MaxStamp + 1
    /\ lock = NoLock
    /\ pm = [m \in Msgs |-> NoEntry]
    /\ leads = [e \in Emails |-> NoLeadRow]
    /\ wk = [p \in Workers |-> IdleWorker]
    /\ sent = [e \in Emails |-> 0]
    /\ firstOk = [m \in Msgs |-> FALSE]
    /\ everSuccess = [m \in Msgs |-> FALSE]
    /\ touched = {}
    /\ faults = NoCount
    /\ named = [e \in Emails |-> Null]
    /\ config = DefaultConfig
    /\ agents \in [Agents -> AgentRows]
    /\ inbox = box
    /\ unread = inbox
    /\ initialAgents = agents
    /\ ParserIdle

\* Messages processed one after the other against any roster, every call
\* succeeding; the clock moves between invocations, and an invocation starts at a
\* minute later than every assignment made before.
InitAssign == InitRoster({"m1", "m2"})

NextAssign ==
    \/ \E m \in Msgs :
           /\ \A a \in Agents : agents[a].lastAssignedAt < now
           /\ ProcessOne_Start("w1", m)
    \/ PM_Step("w1")
    \/ wk["w1"].pc = "idle" /\ Tick

SpecAssign == InitAssign /\ [][NextAssign]_vars

\* Two messages of one pass, each handed to one invocation, the two invocations
\* running side by side (process-one beside a run, or two process-one) on a roster
\* of at least two active agents, each never assigned or assigned at minute 1;
\* the mailbox also holds m3, from which no lead can be read, and the clock moves
\* on by a minute at any point of the pass.
InitAssignRace ==
    /\ InitRoster(Msgs)
    /\ Cardinality(ActiveAgents) >= 2
    /\ \A a \in Agents : agents[a].lastAssignedAt \in {NoTime, 1}

NextAssignRace ==
    \/ \E p \in Workers, m \in Msgs :
           /\ ~pm[m].exists
           /\ \A q \in Workers : wk[q].messageId # m
           /\ ProcessOne_Start(p, m)
    \/ \E p \in Workers : PM_Step(p)
    \/ now = MaxStamp + 1 /\ Tick

SpecAssignRace == InitAssignRace /\ [][NextAssignRace]_vars

\* ------------------------------------------------- texts
\* A text is a sequence of lines; a line is a value, alone or after "label:". A
\* value is a sequence of tokens: words and the separators "@", "." and " " for
\* addresses and phrases, single characters for phone numbers. Words are chosen
\* so that none contains the text of another: a substring test of the source is
\* the test for a run of consecutive tokens.
Line(label, value) == [label |-> label, value |-> value]

Phrases ==
    {<<"from", " ", "Zillow">>,
     <<"lead", " ", "ad">>}

Addresses ==
    {<<"JOHN", "@", "Example", ".", "com">>,
     <<"postmaster", "@", "example", ".", "com">>,
     <<"noreply", "@", "zillow", ".", "com">>,
     <<"zillow", "fan", "@", "gmail", ".", "com">>,
     <<"leads", "@", "fb", ".", "com">>}

RawPhones ==
    {<<"(", "5", "5", "5", ")", " ", "1", "2", "3", "-", "4", "5", "6", "7">>,
     <<"+", "1", "5", "5", "5", "1", "2", "3", "4", "5", "6", "7">>,
     <<"5", "5", "5", "-", "1", "2", "3", "4">>}

Lines ==
    {Line("", v) : v \in Phrases \cup Addresses \cup RawPhones}
        \cup {Line("Email", v) : v \in Addresses}
        \cup {Line("Reply to", <<"JOHN", "@", "Example", ".", "com">>)}
        \cup {Line("Phone", v) : v \in RawPhones}

Texts == UNION {[1..n -> Lines] : n \in 0..MaxLines}

Subjects ==
    {<< >>,
     <<"Zillow">>,
     <<"realtor", " ", "lead">>,
     <<"New", " ", "lead", " ", "from">>}

\* ------------------------------------------------- strings
\* String.prototype.toLowerCase, on one word.
Lower(word) ==
    CASE word = "JOHN" -> "john"
      [] word = "Example" -> "example"
      [] word = "Zillow" -> "zillow"
      [] word = "New" -> "new"
      [] word = "Email" -> "email"
      [] word = "Reply to" -> "reply to"
      [] word = "Phone" -> "phone"
      [] OTHER -> word

toLowerCase(s) == [i \in 1..Len(s) |-> Lower(s[i])]

\* String.prototype.includes
Includes(s, pattern) ==
    \E i \in 1..(Len(s) - Len(pattern) + 1) : SubSeq(s, i, i + Len(pattern) - 1) = pattern

\* text.toLowerCase().includes(pattern), the pattern within one line.
TextIncludes(t, pattern) ==
    \E k \in 1..Len(t) : Includes(toLowerCase(t[k].value), pattern)

\* String.prototype.trim
RECURSIVE trim(_)
trim(s) ==
    IF s = << >> THEN s
    ELSE IF Head(s) = " " THEN trim(Tail(s))
    ELSE IF s[Len(s)] = " " THEN trim(SubSeq(s, 1, Len(s) - 1))
    ELSE s

\* [...new Set(list)]: the first occurrence of each element, in order.
RECURSIVE Dedupe(_)
Dedupe(s) ==
    IF s = << >> THEN s
    ELSE LET r == Dedupe(SubSeq(s, 1, Len(s) - 1)) IN
         IF \E j \in 1..Len(r) : r[j] = s[Len(s)] THEN r ELSE Append(r, s[Len(s)])

Min(S) == CHOOSE x \in S : \A y \in S : x <= y

\* list[0], undefined on an empty list.
First(s) == IF s = << >> THEN << >> ELSE Head(s)

\* ------------------------------------------------- validators.ts
\* /^[^\s@]+@[^\s@]+\.[^\s@]+$/ : one "@" with text before it, no whitespace, and
\* after the "@" a "." with text on both sides.
EmailShaped(e) ==
    \E i \in 2..Len(e) :
        /\ e[i] = "@"
        /\ \A j \in 1..Len(e) : (j # i => e[j] # "@") /\ e[j] # " "
        /\ \E d \in (i + 2)..(Len(e) - 1) : e[d] = "."

isValidEmail(email) == EmailShaped(toLowerCase(trim(email)))

Digits == {"0", "1", "2", "3", "4", "5", "6", "7", "8", "9"}

IsDigit(c) == c \in Digits

\* hasPlus ? "+" + digits : digits, digits being phone.replace(/\D/g, "")
normalizePhone(phone) ==
    LET hasPlus == trim(phone) # << >> /\ Head(trim(phone)) = "+"
        digits == SelectSeq(phone, IsDigit)
    IN IF hasPlus THEN <<"+">> \o digits ELSE digits

\* normalized.replace(/^\+/, "")
DigitsOnly(normalized) ==
    IF normalized # << >> /\ Head(normalized) = "+" THEN Tail(normalized) ELSE normalized

isValidPhone(phone) ==
    LET digitsOnly == DigitsOnly(normalizePhone(phone)) IN
    Len(digitsOnly) >= 7 /\ Len(digitsOnly) <= 15

\* The email regex of extractEmails finds an address in a line's value when the
\* value is one (words of letters and digits around "@" and "."; the last word
\* of every address here has two letters or more).
IsAddress(l) == EmailShaped(l.value)

extractEmails_AsFound(t) ==
    LET found == SelectSeq(t, IsAddress) IN
    Dedupe([i \in 1..Len(found) |-> found[i].value])

\* [...new Set(matches.map((e) => e.toLowerCase()))]
extractEmails(t) ==
    LET found == SelectSeq(t, IsAddress) IN
    Dedupe([i \in 1..Len(found) |-> toLowerCase(found[i].value)])

\* One element of a phone pattern: a character of the set, required or optional.
One(chars) == [chars |-> chars, optional |-> FALSE]
Opt(chars) == [chars |-> chars, optional |-> TRUE]

Separators == {"-", ".", " "}

\* /\+?1?[-.\s]?\(?[0-9]{3}\)?[-.\s]?[0-9]{3}[-.\s]?[0-9]{4}/
GroupedPhone ==
    <<Opt({"+"}), Opt({"1"}), Opt(Separators), Opt({"("}),
      One(Digits), One(Digits), One(Digits), Opt({")"}), Opt(Separators),
      One(Digits), One(Digits), One(Digits), Opt(Separators),
      One(Digits), One(Digits), One(Digits), One(Digits)>>

\* The position after the match of pattern elements k.. at position i of s, 0
\* when there is none; an optional element is taken when the rest then matches.
RECURSIVE MatchEnd(_, _, _, _)
MatchEnd(pattern, s, i, k) ==
    IF k > Len(pattern) THEN i
    ELSE LET taken == IF i <= Len(s) /\ s[i] \in pattern[k].chars
                      THEN MatchEnd(pattern, s, i + 1, k + 1) ELSE 0
         IN IF taken # 0 THEN taken
            ELSE IF pattern[k].optional THEN MatchEnd(pattern, s, i, k + 1)
            ELSE 0

\* The first match of the grouped pattern in a value, << >> when there is none.
GroupedMatch(s) ==
    LET starts == {i \in 1..Len(s) : MatchEnd(GroupedPhone, s, i, 1) # 0} IN
    IF starts = {} THEN << >>
    ELSE SubSeq(s, Min(starts), MatchEnd(GroupedPhone, s, Min(starts), 1) - 1)

\* /\b[0-9]{10,11}\b/ : a run of 10 or 11 digits with no digit on either side
\* (phone values hold no letters), the longer run first.
DigitRun(s, i, n) ==
    /\ i + n - 1 <= Len(s)
    /\ \A j \in i..(i + n - 1) : s[j] \in Digits
    /\ i = 1 \/ s[i - 1] \notin Digits
    /\ i + n > Len(s) \/ s[i + n] \notin Digits

BareMatch(s) ==
    LET starts == {i \in 1..Len(s) : DigitRun(s, i, 11) \/ DigitRun(s, i, 10)} IN
    IF starts = {} THEN << >>
    ELSE LET i == Min(starts) IN
         SubSeq(s, i, i + (IF DigitRun(s, i, 11) THEN 11 ELSE 10) - 1)

HasGrouped(l) == GroupedMatch(l.value) # << >>
HasBare(l) == BareMatch(l.value) # << >>

\* phones.map(normalizePhone).filter(isValidPhone), de-duplicated; a value holds
\* one match of a pattern at most.
extractPhones(t) ==
    LET grouped == SelectSeq(t, HasGrouped)
        bare == SelectSeq(t, HasBare)
        phones == [i \in 1..Len(grouped) |-> GroupedMatch(grouped[i].value)]
                      \o [i \in 1..Len(bare) |-> BareMatch(bare[i].value)]
        normalized == [i \in 1..Len(phones) |-> normalizePhone(phones[i])]
    IN Dedupe(SelectSeq(normalized, isValidPhone))

\* ------------------------------------------------- the recognizers
Candidate(email, phone, source) ==
    [matched |-> TRUE, email |-> email, phone |-> phone, source |-> source]

\* text.match(/(?:labels):\s*([^\s@]+@[^\s@]+\.[^\s@]+)/i): the value of the
\* first line with one of the labels and an address after it.
LabeledAddress(t, labels) ==
    LET hits == {k \in 1..Len(t) : Lower(t[k].label) \in labels /\ EmailShaped(t[k].value)} IN
    IF hits = {} THEN << >> ELSE t[Min(hits)].value

\* for (const pattern of emailPatterns): the first pattern whose match is a valid
\* email gives the email, lower-cased.
LabeledEmail(t, emailPatterns) ==
    LET valid == {i \in 1..Len(emailPatterns) :
                     /\ LabeledAddress(t, emailPatterns[i]) # << >>
                     /\ isValidEmail(LabeledAddress(t, emailPatterns[i]))}
    IN IF valid = {} THEN << >>
       ELSE toLowerCase(LabeledAddress(t, emailPatterns[Min(valid)]))

\* [\d\s\-().+]
PhoneChars == Digits \cup {" ", "-", "(", ")", ".", "+"}

\* The longest prefix of a value made of phone characters.
PhonePrefix(v) ==
    LET n == Min({i \in 0..Len(v) : i = Len(v) \/ v[i + 1] \notin PhoneChars}) IN
    SubSeq(v, 1, n)

\* text.match(/(?:labels):\s*([\d\s\-().+]+)/i), then match[1].trim()
LabeledPhone(t, labels) ==
    LET hits == {k \in 1..Len(t) :
                    Lower(t[k].label) \in labels /\ PhonePrefix(t[k].value) # << >>}
    IN IF hits = {} THEN << >> ELSE trim(PhonePrefix(t[Min(hits)].value))

\* email/phone from the labeled field, else the first one the scan leaves.
OrElse(labeled, scanned) == IF labeled # << >> THEN labeled ELSE First(scanned)

\* zillow.ts
IsZillow(t, s) ==
    \/ Includes(toLowerCase(s), <<"zillow">>)
    \/ TextIncludes(t, <<"zillow", ".", "com">>)
    \/ TextIncludes(t, <<"from", " ", "zillow">>)

ZillowLeadEmail(e) == ~Includes(e, <<"zillow">>) /\ ~Includes(e, <<"zillow", "group">>)

parseZillowLead(t, s) ==
    LET email == OrElse(LabeledEmail(t, <<{"email", "e-mail", "contact email"}>>),
                        SelectSeq(extractEmails(t), ZillowLeadEmail))
        phone == OrElse(LabeledPhone(t, {"phone", "mobile", "cell", "tel"}), extractPhones(t))
    IN IF ~IsZillow(t, s) THEN NoMatch
       ELSE IF email = << >> THEN NoMatch
       ELSE Candidate(email, phone, "zillow")

\* realtor.ts
IsRealtor(t, s) ==
    \/ Includes(toLowerCase(s), <<"realtor", ".", "com">>)
    \/ Includes(toLowerCase(s), <<"realtor", " ", "lead">>)
    \/ TextIncludes(t, <<"realtor", ".", "com">>)
    \/ TextIncludes(t, <<"move", ".", "com">>)

RealtorLeadEmail(e) ==
    /\ ~Includes(e, <<"realtor", ".", "com">>)
    /\ ~Includes(e, <<"move", ".", "com">>)
    /\ ~Includes(e, <<"noreply">>)

parseRealtorLead(t, s) ==
    LET email == OrElse(LabeledEmail(t, <<{"email", "e-mail"}, {"contact", "reply to"}>>),
                        SelectSeq(extractEmails(t), RealtorLeadEmail))
        phone == OrElse(LabeledPhone(t, {"phone", "mobile", "cell", "tel", "telephone"}),
                        extractPhones(t))
    IN IF ~IsRealtor(t, s) THEN NoMatch
       ELSE IF email = << >> THEN NoMatch
       ELSE Candidate(email, phone, "realtor")

\* facebook.ts
IsFacebook(t, s) ==
    \/ Includes(toLowerCase(s), <<"facebook">>)
    \/ Includes(toLowerCase(s), <<"new", " ", "lead", " ", "from">>)
    \/ TextIncludes(t, <<"facebook", ".", "com">>)
    \/ TextIncludes(t, <<"fb", ".", "com">>)
    \/ TextIncludes(t, <<"lead", " ", "ad">>)

FacebookLeadEmail(e) ==
    /\ ~Includes(e, <<"facebook">>)
    /\ ~Includes(e, <<"fb", ".", "com">>)
    /\ ~Includes(e, <<"facebook", "mail">>)

parseFacebookLead(t, s) ==
    LET email == OrElse(LabeledEmail(t, <<{"email", "e-mail", "email_address"}>>),
                        SelectSeq(extractEmails(t), FacebookLeadEmail))
        phone == OrElse(LabeledPhone(t, {"phone", "phone_number", "mobile", "cell"}),
                        extractPhones(t))
    IN IF ~IsFacebook(t, s) THEN NoMatch
       ELSE IF email = << >> THEN NoMatch
       ELSE Candidate(email, phone, "facebook")

\* generic.ts
MailerWords == {"noreply", "no-reply", "donotreply", "mailer-daemon", "postmaster"}

GenericLeadEmail(e) == \A w \in MailerWords : ~Includes(e, <<w>>)

parseGenericLead(t, s) ==
    LET leadEmails == SelectSeq(extractEmails(t), GenericLeadEmail) IN
    IF leadEmails = << >> THEN NoMatch
    ELSE Candidate(Head(leadEmails), First(extractPhones(t)), "generic")

\* ------------------------------------------------- index.ts
parsers_GenericFirst == <<"generic", "zillow", "realtor", "facebook">>

\* const parsers: LeadParser[], in the order they are tried.
parsers == <<"zillow", "realtor", "facebook", "generic">>

Apply(parser, t, s) ==
    CASE parser = "zillow" -> parseZillowLead(t, s)
      [] parser = "realtor" -> parseRealtorLead(t, s)
      [] parser = "facebook" -> parseFacebookLead(t, s)
      [] OTHER -> parseGenericLead(t, s)

\* throw new Error("Could not parse lead data from email. No valid email address found.")
NoLeadExtractable == [done |-> TRUE, lead |-> NoMatch, error |-> "no valid email address found"]

\* One turn of the loop of parseLeadFromText: the next parser is applied; its
\* result is returned when it is a lead with a valid email, and the function
\* throws when the last parser gave none.
parseLeadFromText ==
    LET result == Apply(parsers[Len(results) + 1], text, subject) IN
    /\ ~outcome.done
    /\ Len(results) < Len(parsers)
    /\ results' = Append(results, result)
    /\ outcome' = IF result.matched /\ isValidEmail(result.email)
                  THEN [done |-> TRUE, lead |-> result, error |-> Null]
                  ELSE IF Len(results) + 1 = Len(parsers) THEN NoLeadExtractable
                  ELSE outcome
    /\ UNCHANGED <<text, subject, rawPhone, shown, now, lock, storeVars, inbox, unread, wk,
                   histVars, auxVars>>

\* Any text of a few lines under any subject, handed to parseLeadFromText.
InitParser ==
    /\ InitStore
    /\ agents = [a \in Agents |-> SeededAgent]
    /\ inbox = {}
    /\ unread = {}
    /\ initialAgents = agents
    /\ text \in Texts
    /\ subject \in Subjects
    /\ results = << >>
    /\ outcome = Pending
    /\ rawPhone = << >>
    /\ shown = NotShown

NextParser == parseLeadFromText

SpecParser == InitParser /\ [][NextParser]_vars

\* ------------------------------------------------- validators.ts, phones
\* Format a phone number for display: 10 digits as (XXX) XXX-XXXX, 11 digits led
\* by 1 as +1 (XXX) XXX-XXXX, anything else as normalizePhone leaves it.
formatPhone(p) ==
    LET normalized == normalizePhone(p)
        digitsOnly == DigitsOnly(normalized)
    IN IF Len(digitsOnly) = 10
       THEN <<"(">> \o SubSeq(digitsOnly, 1, 3) \o <<")", " ">> \o SubSeq(digitsOnly, 4, 6)
                \o <<"-">> \o SubSeq(digitsOnly, 7, 10)
       ELSE IF Len(digitsOnly) = 11 /\ Head(digitsOnly) = "1"
       THEN <<"+", "1", " ", "(">> \o SubSeq(digitsOnly, 2, 4) \o <<")", " ">>
                \o SubSeq(digitsOnly, 5, 7) \o <<"-">> \o SubSeq(digitsOnly, 8, 11)
       ELSE normalized

\* The phone strings given to the validators: three groups of digits (the last
\* one possibly short or missing), anything of a few characters before them, a
\* separator between them and possibly a character behind.
Pads == UNION {[1..n -> {" ", "+", "(", "1"}] : n \in 0..MaxPad}

Seps == {<< >>, <<"-">>, <<" ">>, <<")", " ">>, <<".">>}

PhoneInputs ==
    {pre \o <<"5", "5", "5">> \o s1 \o <<"1", "2", "3">> \o s2 \o last \o post :
        pre \in Pads, s1 \in Seps, s2 \in Seps,
        last \in {<<"4", "5", "6", "7">>, <<"4", "5", "6">>, << >>},
        post \in {<< >>, <<" ">>, <<"+">>}}

\* The validators applied to one phone string, and normalizePhone applied once
\* more to what normalizePhone and formatPhone returned.
ShowPhone ==
    /\ ~shown.done
    /\ shown' = [done |-> TRUE,
                 normalized |-> normalizePhone(rawPhone),
                 valid |-> isValidPhone(rawPhone),
                 formatted |-> formatPhone(rawPhone),
                 again |-> normalizePhone(normalizePhone(rawPhone)),
                 back |-> normalizePhone(formatPhone(rawPhone))]
    /\ UNCHANGED <<rawPhone, text, subject, results, outcome, now, lock, storeVars, inbox,
                   unread, wk, histVars, auxVars>>

InitPhone ==
    /\ InitStore
    /\ agents = [a \in Agents |-> SeededAgent]
    /\ inbox = {}
    /\ unread = {}
    /\ initialAgents = agents
    /\ text = << >>
    /\ subject = << >>
    /\ results = << >>
    /\ outcome = Pending
    /\ rawPhone \in PhoneInputs
    /\ shown = NotShown

NextPhone == ShowPhone

SpecPhone == InitPhone /\ [][NextPhone]_vars

\* ======================================================== the claims
InvocationOf(p, m) == wk[p].pc # "idle" /\ wk[p].messageId = m

\* The run p is in got the lock (its acquireLock returned true) and has not
\* released it.
Acquired(p) == wk[p].lockAcquired /\ wk[p].pc # "idle"

\* C1 (mutual exclusion under racing acquires): of two acquireLock calls, each
\* made before the expiry the other one wrote, at most one returns true.
C1_RacingAcquires ==
    \A p, q \in Workers :
        (p # q /\ Acquired(p) /\ Acquired(q)) =>
            ~(/\ wk[p].lockNow < wk[q].lockNow + LOCK_TTL
              /\ wk[q].lockNow < wk[p].lockNow + LOCK_TTL)

\* C2 (one valid holder across runs, lock calls atomic): while a run that got the
\* lock has not released it and the expiry it wrote is in the future, no other
\* run's acquireLock returns true; so no two runs hold an unexpired lock at once.
C2_OneValidHolder ==
    \A p, q \in Workers :
        p # q => ~(/\ Acquired(p) /\ now < wk[p].lockNow + LOCK_TTL
                   /\ Acquired(q) /\ now < wk[q].lockNow + LOCK_TTL)

\* C3 (idempotent reply on reprocessing): once the first invocation for a message
\* has returned success, the lead carries a reply-sent timestamp, no later
\* invocation for that message reaches the send, and, no other message having
\* been processed, exactly one reply has been sent to the lead's address.
C3_IdempotentReply ==
    \A m \in Msgs :
        firstOk[m] =>
            /\ leads[LeadOf(m).email].replySentAt # NoTime
            /\ \A p \in Workers : InvocationOf(p, m) => wk[p].pc \notin {"send", "reply_mark"}
            /\ (\A o \in Msgs \ {m} : ~pm[o].exists) => sent[LeadOf(m).email] = 1

\* The second invocation for a message whose first one succeeded has passed step 5
\* without sending.
C3_Witness ==
    \E p \in Workers, m \in Msgs :
        /\ firstOk[m]
        /\ InvocationOf(p, m)
        /\ wk[p].attempts = 2
        /\ wk[p].pc = "mark_success"
        /\ sent[LeadOf(m).email] = 1

\* C4 (exactly-once reply per lead over failures): over sequential invocations,
\* any step of which may fail or be cut short by a crash, no address is sent more
\* than one reply.
C4_AtMostOneReply == \A e \in Emails : sent[e] <= 1

\* C5 (exactly-once reply under interleaving): with two invocations for the same
\* lead email interleaved and every call succeeding, at most one reply is sent to
\* the address and one Lead row holds it.
C5_AtMostOneReplyRacing ==
    \A e \in Emails :
        /\ sent[e] <= 1
        /\ Cardinality({x \in Emails : x = e /\ leads[x].exists}) <= 1

\* C6 (status state machine): a status changes only to PROCESSING (a new attempt)
\* or from PROCESSING to SUCCESS or FAILED; in particular a record written SUCCESS
\* is not written FAILED afterwards by the same invocation.
C6_StatusStateMachine ==
    [][\A m \in Msgs :
          pm'[m].status # pm[m].status =>
              \/ pm'[m].status = "PROCESSING"
              \/ pm[m].status = "PROCESSING" /\ pm'[m].status \in {"SUCCESS", "FAILED"}]_vars

\* C10 (attempt counter): the attempt counter of a record never decreases, under
\* any interleaving of invocations for its message.
C10_AttemptsNeverDecrease ==
    [][\A m \in Msgs : pm'[m].attempts >= pm[m].attempts]_vars

\* A scheduled run (not a manual replay) has just invoked processMessage.
ScheduledInvocation(p) == wk[p].pc = "pm_find" /\ wk[p].ret \in {"primary", "retry"}

\* C7 (SUCCESS is never reprocessed by polling): no scheduled run invokes
\* processMessage on a message whose record has been written SUCCESS.
C7_NoReprocessAfterSuccess ==
    \A p \in Workers : ScheduledInvocation(p) => ~everSuccess[wk[p].messageId]

\* C8 (total attempts capped): no scheduled run invokes processMessage on a record
\* that is FAILED with its attempt counter at the retry ceiling (so that scheduled
\* runs never take the counter past the ceiling).
C8_AttemptsCapped ==
    \A p \in Workers :
        ScheduledInvocation(p) =>
            ~(/\ pm[wk[p].messageId].status = "FAILED"
              /\ pm[wk[p].messageId].attempts >= RETRY_MAX_ATTEMPTS)

\* C9 (retry ceiling in the retry pass): the batch the retry pass queries holds
\* only records that are FAILED with attempts below the ceiling at query time, and
\* the pass invokes processMessage only on such records.
C9_RetryCeiling ==
    [][\A p \in Workers :
          /\ (wk[p].pc = "retry_query" /\ wk'[p].pc = "retry") =>
                 \A m \in Range(wk'[p].failedMessages) :
                     pm[m].status = "FAILED" /\ pm[m].attempts < RETRY_MAX_ATTEMPTS
          /\ (wk[p].pc = "retry" /\ wk'[p].pc = "pm_find") =>
                 /\ pm[wk'[p].messageId].status = "FAILED"
                 /\ pm[wk'[p].messageId].attempts < RETRY_MAX_ATTEMPTS]_vars

\* A retry batch that holds a record while another record, FAILED with its counter
\* at the ceiling, was left out of it.
C9_Witness ==
    \E p \in Workers, m \in Msgs :
        /\ wk[p].pc = "retry"
        /\ wk[p].failedMessages # <<>>
        /\ pm[m].status = "FAILED"
        /\ pm[m].attempts = RETRY_MAX_ATTEMPTS
        /\ m \notin Range(wk[p].failedMessages)

\* The positions of processMessage after its first write.
AfterMarker == TryPcs \cup {"catch", "alert"}

\* C11 (durable marker before side effects): an invocation that has reached the
\* try block has written the record (PROCESSING, its attempt number, error
\* cleared) before its first step there; and whenever a fetch, an assignment, a
\* lead upsert, a reply or an acknowledgment has taken effect for a message, also
\* after a crash, the message's record exists with attempts >= 1.
C11_DurableMarker ==
    /\ \A p \in Workers :
           wk[p].pc \in AfterMarker =>
               /\ pm[wk[p].messageId].exists
               /\ pm[wk[p].messageId].attempts = wk[p].attempts
           /\ (wk[p].pc = "extract" =>
                  /\ pm[wk[p].messageId].status = "PROCESSING"
                  /\ pm[wk[p].messageId].errorLog = Null)
    /\ \A m \in Msgs :
           (\/ m \in touched
            \/ m \in inbox \ unread
            \/ \E e \in Emails : leads[e].sourceMessage = m) =>
               pm[m].exists /\ pm[m].attempts >= 1

\* A crash after the reply went out: no process is left, the reply is sent, the
\* lead row has no reply timestamp and the record still says PROCESSING.
C11_Witness ==
    \E m \in touched :
        /\ \A p \in Workers : wk[p].pc = "idle"
        /\ sent[LeadOf(m).email] = 1
        /\ leads[LeadOf(m).email].replySentAt = NoTime
        /\ pm[m].status = "PROCESSING"
        /\ pm[m].attempts = 1

\* C12 (per-message failures never abort a run): no failure raised while a message
\* is processed leaves processMessage as an exception: the run's loop goes on, and
\* a run ends with exit code 1 only for an exception of the coordinator itself.
C12_FailuresNeverAbort ==
    \A p \in Workers :
        /\ wk[p].fatal # "message"
        /\ wk[p].exitCode = 1 => wk[p].fatal = "coordinator"

\* processMessage hands a result with success: false to the run that called it.
ReturnsFailure(p) ==
    /\ wk[p].pc = "alert"
    /\ wk'[p].pc # "alert"
    /\ wk'[p].result.returned
    /\ ~wk'[p].result.success

\* C13 (no acknowledgment on failure): an invocation takes the UNREAD label off
\* its message in no step but the one that returns success; so when an invocation
\* of a scheduled run returns success: false its message still carries the label
\* and a poll made then lists it.
C13_NoAckOnFailure ==
    [][\A p \in Workers :
          /\ (wk[p].pc \in AfterMarker \cup {"pm_find", "pm_upsert"}
                 /\ ~(wk'[p].result.returned /\ wk'[p].result.success))
                => unread' = unread
          /\ ReturnsFailure(p) =>
                /\ wk[p].messageId \in unread'
                /\ wk[p].messageId \in Range(pollUnreadMessages(DEFAULT_MAX_MESSAGES))']_vars

\* A run goes on after a failed result for a message that a later poll would list.
C13_Witness ==
    \E p \in Workers, m \in Msgs :
        /\ wk[p].pc \in {"primary", "retry"}
        /\ wk[p].result.returned
        /\ wk[p].result.messageId = m
        /\ ~wk[p].result.success
        /\ pm[m].status = "FAILED"
        /\ m \in Range(pollUnreadMessages(DEFAULT_MAX_MESSAGES))

\* C14 (error detail only on FAILED records): a record that is PROCESSING or
\* SUCCESS has a null errorLog; a record that is FAILED has a non-null one, and
\* right after the catch block wrote it, it is the error that invocation caught.
C14_ErrorOnlyOnFailed ==
    /\ \A m \in Msgs :
           pm[m].exists =>
               /\ pm[m].status \in {"PROCESSING", "SUCCESS"} => pm[m].errorLog = Null
               /\ pm[m].status = "FAILED" => pm[m].errorLog # Null
    /\ \A p \in Workers :
           wk[p].pc = "alert" =>
               /\ pm[wk[p].messageId].status = "FAILED"
               /\ pm[wk[p].messageId].errorLog = wk[p].errorMessage

\* The third attempt for a message has written PROCESSING with the error cleared,
\* no reply having gone out before: the attempts before it failed or were cut short.
C14_Witness ==
    \E p \in Workers, m \in Msgs :
        /\ InvocationOf(p, m)
        /\ wk[p].pc = "extract"
        /\ wk[p].attempts = 3
        /\ pm[m].errorLog = Null
        /\ \E o \in Msgs \ {m} : pm[o].status = "FAILED" /\ pm[o].errorLog = "send failed"

\* C15 (an alert failure does not mask the processing failure): whether
\* notifyFailure goes through or rejects, the invocation that called it returns
\* success: false with the error it caught, raises nothing into the run, and
\* leaves the record FAILED with that error.
C15_AlertFailureNotMasking ==
    [][\A p \in Workers :
          (wk[p].pc = "alert" /\ wk'[p].pc # "alert") =>
              /\ wk'[p].pc = ReturnPc(wk[p])
              /\ wk'[p].fatal = Null
              /\ wk'[p].result = [returned |-> TRUE, messageId |-> wk[p].messageId,
                                  success |-> FALSE, error |-> wk[p].errorMessage]
              /\ pm'[wk[p].messageId].status = "FAILED"
              /\ pm'[wk[p].messageId].errorLog = wk[p].errorMessage]_vars

\* notifyFailure rejected, and the run goes on with the failed result whose error
\* is the one on the record.
C15_Witness ==
    \E p \in Workers :
        /\ wk[p].pc \in {"primary", "retry"}
        /\ wk[p].alertError
        /\ wk[p].result.returned
        /\ ~wk[p].result.success
        /\ wk[p].result.error = "send failed"
        /\ pm[wk[p].result.messageId].status = "FAILED"
        /\ pm[wk[p].result.messageId].errorLog = "send failed"

\* C16 (unconditional release): a run that got the lock ends, other than by a
\* crash, only out of its call of releaseLock, which it reaches also when the
\* poll, a message's processing or the retry pass raised; and when it has ended
\* the lock row has its expiry in the past and no holder (the store having
\* carried out the update of releaseLock).
C16_UnconditionalRelease ==
    [][\A p \in Workers :
          /\ (Acquired(p) /\ wk[p].fatal = Null /\ wk'[p].fatal # Null) =>
                 wk'[p].pc = "release"
          /\ (Acquired(p) /\ wk'[p].exitCode # NoExit) =>
                 /\ wk[p].pc = "release"
                 /\ \/ wk'[p].lockError
                    \/ /\ lock'.exists
                       /\ lock'.expiresAt < now'
                       /\ lock'.lockedBy = Null]_vars

\* A run that an exception ended has exited 1 with the lock released, a message
\* of it having failed before.
C16_Witness ==
    \E p \in Workers, m \in Msgs :
        /\ wk[p].exitCode = 1
        /\ wk[p].fatal = "coordinator"
        /\ pm[m].status = "FAILED"
        /\ lock.exists
        /\ lock.expiresAt = Epoch
        /\ lock.lockedBy = Null

\* A step of p that is neither a crash of it nor a store error caught inside
\* acquireLock.
CallGoesThrough(p) == wk'[p] # wk[p] /\ wk'[p] # IdleWorker /\ ~wk'[p].lockError

\* The lock row names a holder that has not released it, and p called acquireLock
\* when the TTL had run out since that holder's acquisition.
HolderTimedOut(p) ==
    /\ lock.exists
    /\ lock.lockedBy \in Workers
    /\ wk[p].lockNow >= lock.expiresAt

\* C17 (self-healing after a crash): an acquireLock call made once the TTL has
\* elapsed since the acquisition of a holder that never released (it crashed)
\* returns true and makes the caller the holder, the store carrying out its calls.
C17_SelfHealing ==
    [][\A p \in Workers :
          /\ (wk[p].pc = "acq_read" /\ HolderTimedOut(p) /\ CallGoesThrough(p)) =>
                 wk'[p].pc = "acq_upsert"
          /\ (wk[p].pc = "acq_upsert" /\ HolderTimedOut(p) /\ CallGoesThrough(p)) =>
                 /\ wk'[p].lockAcquired
                 /\ lock'.lockedBy = p
                 /\ lock'.expiresAt > now]_vars

\* The holder crashed without releasing; another run, started when the TTL was
\* over, has passed the test of acquireLock.
C17_Witness ==
    \E p, q \in Workers :
        /\ p # q
        /\ lock.lockedBy = q
        /\ wk[q].pc = "idle"
        /\ wk[q].exitCode = NoExit
        /\ wk[p].pc = "acq_upsert"
        /\ wk[p].lockNow >= lock.expiresAt

\* The positions of a run after acquireLock returned true.
PastLock == {"poll", "primary", "retry_query", "retry", "release"} \cup AfterMarker
                \cup {"pm_find", "pm_upsert"}

\* C18 (lock contention is a clean no-op): a run whose acquireLock returned false
\* (and that was not killed) ends there with exit code 0, the lock row, the store and the mailbox as they
\* were; only a run that got the lock polls, processes, retries or releases.
C18_ContentionNoOp ==
    [][\A p \in Workers :
          /\ (wk[p].pc \in {"acq_read", "acq_upsert"} /\ wk'[p].pc \notin {"acq_read", "acq_upsert"}
                 /\ wk'[p] # IdleWorker /\ ~wk'[p].lockAcquired) =>
                 /\ wk'[p].pc = "idle"
                 /\ wk'[p].exitCode = 0
                 /\ UNCHANGED <<lock, storeVars, inbox, unread, histVars, auxVars, parserVars>>
          /\ wk'[p].pc \in PastLock => wk'[p].lockAcquired]_vars

\* A run has exited 0 without the lock, the lock row naming a holder whose expiry
\* is still ahead and the mailbox holding unread messages.
C18_Witness ==
    \E p \in Workers :
        /\ wk[p].pc = "idle"
        /\ wk[p].exitCode = 0
        /\ ~wk[p].lockAcquired
        /\ ~wk[p].lockError
        /\ lock.lockedBy # Null
        /\ lock.expiresAt > now
        /\ unread # {}

\* C19 (acquireLock): reading a row whose expiry is after the call's `now`, the
\* call returns false, raises nothing and leaves the row as it is; reading no row,
\* or one whose expiry is not after `now`, it goes on to the upsert, which leaves
\* the caller as holder with expiry now + TTL, and returns true.
C19_AcquireContract ==
    [][\A p \in Workers :
          /\ (wk[p].pc = "acq_read" /\ wk'[p] # wk[p] /\ wk'[p] # IdleWorker
                 /\ lock.exists /\ lock.expiresAt > wk[p].lockNow) =>
                 /\ wk'[p].pc = "idle"
                 /\ ~wk'[p].lockAcquired
                 /\ wk'[p].exitCode = 0
                 /\ lock' = lock
          /\ (wk[p].pc = "acq_read" /\ CallGoesThrough(p)
                 /\ ~(lock.exists /\ lock.expiresAt > wk[p].lockNow)) =>
                 /\ wk'[p].pc = "acq_upsert"
                 /\ lock' = lock
          /\ (wk[p].pc = "acq_upsert" /\ CallGoesThrough(p)) =>
                 /\ wk'[p].pc = "poll"
                 /\ wk'[p].lockAcquired
                 /\ lock'.exists
                 /\ lock'.lockedBy = p
                 /\ lock'.expiresAt = wk[p].lockNow + LOCK_TTL]_vars

\* A call made at the very minute the row expires has got the lock.
C19_Witness ==
    \E p \in Workers :
        /\ wk[p].pc = "poll"
        /\ wk[p].lockNow = 1 + LOCK_TTL
        /\ lock.lockedBy = p
        /\ lock.expiresAt = wk[p].lockNow + LOCK_TTL

\* C20 (extendLock): a call returns true only with the caller recorded as holder,
\* the expiry then being now + TTL and the holder still the caller; a step of a
\* call made while the recorded holder is not the caller (another holder, a
\* cleared holder, no row) leaves the row as it is and does not return true.
C20_ExtendContract ==
    [][\A p \in Workers :
          /\ (wk[p].pc \in {"ext_read", "ext_update"} /\ wk'[p].extended = "true") =>
                 /\ lock'.lockedBy = p
                 /\ lock'.expiresAt = now + LOCK_TTL
          /\ (wk[p].pc \in {"ext_read", "ext_update"} /\ wk'[p] # wk[p]
                 /\ NotOwner(lock, p)) =>
                 /\ lock' = lock
                 /\ wk'[p].extended # "true"]_vars

RECURSIVE SumOver(_, _)
SumOver(f, S) == IF S = {} THEN 0 ELSE LET x == CHOOSE y \in S : TRUE IN f[x] + SumOver(f, S \ {x})

\* How many calls of pickAgentRoundRobin have assigned agent a since the start.
TimesAssigned == [a \in Agents |-> agents[a].assignedCount - initialAgents[a].assignedCount]

\* The active agents of a roster have last-assigned timestamps, pairwise distinct.
DistinctStamps(roster) ==
    \A a, b \in ActiveAgents :
        /\ roster[a].lastAssignedAt # NoTime
        /\ a # b => roster[a].lastAssignedAt # roster[b].lastAssignedAt

\* C21 (round-robin fairness): from a roster of N active agents with pairwise
\* distinct last-assigned timestamps, as long as no more than N sequential calls
\* (at increasing clock values) have been made, no agent has been assigned twice,
\* and those assigned are the ones that had been waiting longest; so N calls
\* assign every active agent once.
C21_RoundRobinFairness ==
    (DistinctStamps(initialAgents) /\ SumOver(TimesAssigned, Agents) <= Cardinality(ActiveAgents)) =>
        /\ \A a \in Agents : TimesAssigned[a] <= 1
        /\ \A a, b \in ActiveAgents :
               (TimesAssigned[a] = 1 /\ TimesAssigned[b] = 0) =>
                   initialAgents[a].lastAssignedAt < initialAgents[b].lastAssignedAt

\* Three calls on a roster of three active agents have assigned each of them once.
C21_Witness ==
    /\ Cardinality(ActiveAgents) = 3
    /\ DistinctStamps(initialAgents)
    /\ \A a \in Agents : TimesAssigned[a] = 1
    /\ wk["w1"].pc = "idle"

\* C22 (atomic selection under concurrency): two invocations in progress for two
\* different messages, on a roster of at least two active agents, never hold the
\* same agent as the result of their selection.
C22_DistinctRecipients ==
    \A p, q \in Workers :
        (/\ p # q
         /\ wk[p].agent # Null /\ wk[q].agent # Null
         /\ wk[p].messageId # wk[q].messageId
         /\ Cardinality(ActiveAgents) >= 2) =>
            wk[p].agent # wk[q].agent

\* Agent a is active and no active agent has waited longer: a was never assigned,
\* or every active agent was assigned and none before a.
IsHead(a) ==
    /\ agents[a].isActive
    /\ \A b \in Agents :
           agents[b].isActive =>
               \/ agents[a].lastAssignedAt = NoTime
               \/ /\ agents[b].lastAssignedAt # NoTime
                  /\ agents[a].lastAssignedAt <= agents[b].lastAssignedAt

\* C23 (selection picks the head and touches only it): the agent a call reads is
\* an active one that has waited longest, a never-assigned agent counting as
\* oldest; the call raises that agent's count by exactly 1 and sets its timestamp
\* to the current time, leaves its other fields and every other agent unchanged;
\* nothing else changes the roster and no inactive agent is ever held.
C23_PicksHeadOnly ==
    [][/\ (wk["w1"].pc = "agent_find" /\ wk'["w1"].pc = "agent_update") =>
            /\ IsHead(wk'["w1"].agent)
            /\ agents' = agents
       /\ (wk["w1"].pc = "agent_update" /\ wk'["w1"].pc = "lead_find") =>
            LET a == wk["w1"].agent IN
            /\ IsHead(a)
            /\ agents'[a].assignedCount = agents[a].assignedCount + 1
            /\ agents'[a].lastAssignedAt = now
            /\ agents'[a].isActive = agents[a].isActive
            /\ \A b \in Agents \ {a} : agents'[b] = agents[b]
       /\ agents' # agents => (wk["w1"].pc = "agent_update" /\ wk'["w1"].pc = "lead_find")
       /\ wk'["w1"].agent # Null => agents'[wk'["w1"].agent].isActive]_vars

\* A never-assigned agent was selected ahead of an active agent assigned before
\* (its count was already 1 and goes to 2 on a later call), an inactive agent
\* standing by untouched.
C23_Witness ==
    /\ wk["w1"].pc = "lead_find"
    /\ \E a, b, c \in Agents :
           /\ initialAgents[a].isActive /\ initialAgents[a].lastAssignedAt = NoTime
           /\ initialAgents[b].isActive /\ initialAgents[b].lastAssignedAt # NoTime
           /\ ~initialAgents[c].isActive /\ initialAgents[c].lastAssignedAt = NoTime
           /\ agents[a].assignedCount = 1
           /\ agents[b].assignedCount = 2
           /\ wk["w1"].agent = b
           /\ agents[c] = initialAgents[c]

\* C24 (empty roster): with no active agent, the selection of every invocation
\* fails with the no-active-agents error and no Agent row changes; no Lead row is
\* created or updated, no reply is sent, no message is acknowledged, and the
\* invocation leaves its Processing Record FAILED with that error.
C24_EmptyRoster ==
    (\A a \in Agents : ~agents[a].isActive) =>
        /\ agents = initialAgents
        /\ \A e \in Emails : leads[e] = NoLeadRow /\ sent[e] = 0
        /\ unread = inbox
        /\ wk["w1"].pc \in {"idle", "pm_find", "pm_upsert", "extract", "agent_find", "catch", "alert"}
        /\ wk["w1"].pc \in {"catch", "alert"} => wk["w1"].errorMessage = "no active agents"
        /\ \A m \in Msgs :
               (pm[m].exists /\ wk["w1"].messageId # m) =>
                   /\ pm[m].status = "FAILED"
                   /\ pm[m].errorLog = "no active agents"

\* Both messages were processed against a roster without active agents.
C24_Witness ==
    /\ \A a \in Agents : ~agents[a].isActive
    /\ wk["w1"].pc = "idle"
    /\ pm["m1"].status = "FAILED" /\ pm["m1"].errorLog = "no active agents"
    /\ pm["m2"].status = "FAILED"
    /\ \E a \in Agents : agents[a].lastAssignedAt # NoTime

\* C25 (lead merge): the lead upsert of an invocation leaves the one Lead row of
\* the email with, for each of firstName, lastName and phone, the message's value
\* when it has one and the value stored before otherwise, and with the agent this
\* invocation selected and the current time as its assignment; the reply
\* timestamp stays as stored.
C25_LeadMerge ==
    [][(wk["w1"].pc = "lead_upsert" /\ wk'["w1"].pc \in {"send", "mark_success"}) =>
          LET lead == LeadOf(wk["w1"].messageId)
              old == leads[lead.email]
              new == leads'[lead.email]
          IN
          /\ new.exists
          /\ new.firstName = IF lead.firstName # Null THEN lead.firstName ELSE old.firstName
          /\ new.lastName = IF lead.lastName # Null THEN lead.lastName ELSE old.lastName
          /\ new.phone = IF lead.phone # Null THEN lead.phone ELSE old.phone
          /\ new.assignedAgentId = wk["w1"].agent
          /\ new.assignedAt = now
          /\ new.replySentAt = old.replySentAt
          /\ \A e \in Emails \ {lead.email} : leads'[e] = leads[e]]_vars

\* m1 (Ann Lee, no phone) was processed, then m2 (no first name, Ray, a phone) a
\* minute or more later: the row keeps Ann, takes Ray and the phone, and carries
\* the assignment of the second invocation.
C25_Witness ==
    /\ wk["w1"].pc = "mark_success"
    /\ wk["w1"].messageId = "m2"
    /\ pm["m1"].status = "SUCCESS"
    /\ leads["e1"].firstName = "Ann"
    /\ leads["e1"].lastName = "Ray"
    /\ leads["e1"].phone = "5551234567"
    /\ leads["e1"].assignedAgentId = wk["w1"].agent
    /\ leads["e1"].assignedAt = now
    /\ leads["e1"].replySentAt # NoTime /\ leads["e1"].replySentAt < now
    /\ \E a \in Agents \ {wk["w1"].agent} : agents[a].lastAssignedAt = leads["e1"].replySentAt

\* C26 (replySentAt is null until a reply was dispatched): a Lead row with a
\* reply timestamp has had a reply sent to its email, and a reply timestamp, once
\* set, is never cleared or replaced by another.
C26_ReplySentAtStable ==
    [][\A e \in Emails :
          /\ leads'[e].replySentAt # NoTime => sent'[e] >= 1
          /\ leads[e].replySentAt # NoTime => leads'[e].replySentAt = leads[e].replySentAt]_vars

\* The part of an address after its "@".
DomainOf(e) == SubSeq(e, Min({i \in 1..Len(e) : e[i] = "@"} \cup {Len(e) + 1}) + 1, Len(e))

\* The domains a source sends its own mail from.
OwnDomains(source) ==
    CASE source = "zillow" -> {<<"zillow", ".", "com">>, <<"zillow", "group", ".", "com">>}
      [] source = "realtor" -> {<<"realtor", ".", "com">>, <<"move", ".", "com">>}
      [] source = "facebook" -> {<<"facebook", ".", "com">>, <<"fb", ".", "com">>,
                                 <<"facebook", "mail", ".", "com">>}
      [] OTHER -> {}

\* The address is at one of the source's own domains or a subdomain of one.
BelongsTo(e, source) ==
    \E d \in OwnDomains(source) :
        \/ DomainOf(e) = d
        \/ /\ Len(DomainOf(e)) > Len(d) + 1
           /\ SubSeq(DomainOf(e), Len(DomainOf(e)) - Len(d), Len(DomainOf(e))) = <<".">> \o d

\* A generic mailer address.
IsMailer(e) == \E w \in MailerWords : Includes(e, <<w>>)

SpecificSources == {"zillow", "realtor", "facebook"}

Signed(source) ==
    CASE source = "zillow" -> IsZillow(text, subject)
      [] source = "realtor" -> IsRealtor(text, subject)
      [] source = "facebook" -> IsFacebook(text, subject)
      [] OTHER -> FALSE

\* The first source-specific recognizer, in chain order, whose signature the text
\* or the subject carries.
FirstSigned ==
    parsers[Min({i \in 1..Len(parsers) : Signed(parsers[i])})]

\* The addresses of the text, lower-cased.
AddressesIn(t) == {toLowerCase(t[k].value) : k \in {j \in 1..Len(t) : EmailShaped(t[j].value)}}

\* C27 (recognizer priority): when the text or subject carries the signature of a
\* source-specific recognizer and the text holds an address that is neither a
\* mailer address nor at the own domain of the first such source, the chain
\* returns a lead whose source is that first source, never generic.
C27_RecognizerPriority ==
    (/\ outcome.done
     /\ \E source \in SpecificSources : Signed(source)
     /\ \E e \in AddressesIn(text) : ~IsMailer(e) /\ ~BelongsTo(e, FirstSigned)) =>
        /\ outcome.lead.matched
        /\ outcome.lead.source = FirstSigned

\* The filter a recognizer applies to the addresses of its fallback scan.
LeftByFilter(e, source) ==
    CASE source = "zillow" -> ZillowLeadEmail(e)
      [] source = "realtor" -> RealtorLeadEmail(e)
      [] source = "facebook" -> FacebookLeadEmail(e)
      [] OTHER -> GenericLeadEmail(e)

\* The same for the addresses the filter of that first recognizer leaves.
PriorityOverOwnFilter ==
    (/\ outcome.done
     /\ \E source \in SpecificSources : Signed(source)
     /\ \E e \in AddressesIn(text) : LeftByFilter(e, FirstSigned)) =>
        /\ outcome.lead.matched
        /\ outcome.lead.source = FirstSigned

\* C28 (chain totality): a text holding an address that is neither a mailer
\* address nor at a source's own domain yields a lead whose email is lower-cased
\* and valid; a text holding no address at all yields the no-lead error, whatever
\* the subject.
C28_ChainTotality ==
    outcome.done =>
        /\ (\E e \in AddressesIn(text) :
                ~IsMailer(e) /\ \A source \in SpecificSources : ~BelongsTo(e, source)) =>
               /\ outcome.lead.matched
               /\ outcome.error = Null
               /\ outcome.lead.email = toLowerCase(outcome.lead.email)
               /\ isValidEmail(outcome.lead.email)
        /\ AddressesIn(text) = {} =>
               /\ ~outcome.lead.matched
               /\ outcome.error = NoLeadExtractable.error

\* An address written in capitals, behind a mailer address and found by the scan
\* of the last recognizer, was returned lower-cased.
C28_Witness ==
    /\ outcome.done
    /\ outcome.lead.matched
    /\ outcome.lead.source = "generic"
    /\ Len(text) = 2 /\ IsMailer(toLowerCase(text[1].value))
    /\ \E k \in 1..Len(text) :
           /\ text[k].label = ""
           /\ text[k].value # toLowerCase(text[k].value)
           /\ outcome.lead.email = toLowerCase(text[k].value)

\* C29 (mailer and own-domain addresses are never the lead email): no recognizer
\* the chain tries returns a lead whose email contains a mailer word or is at the
\* recognizer's own sending domain.
C29_NoMailerNoOwnDomain ==
    \A i \in 1..Len(results) :
        results[i].matched =>
            /\ ~IsMailer(results[i].email)
            /\ ~BelongsTo(results[i].email, results[i].source)

\* A phone as the Lead Record is to hold it: digits after at most one leading
\* "+", between 7 and 15 of them.
IsNormalizedPhone(phone) ==
    /\ \A j \in 1..Len(DigitsOnly(phone)) : DigitsOnly(phone)[j] \in Digits
    /\ Len(DigitsOnly(phone)) >= 7
    /\ Len(DigitsOnly(phone)) <= 15

\* C30 (stored phones are normalized): the phone of every lead a recognizer
\* returns, when it has one, is digits with at most one leading "+", 7 to 15 of
\* them.
C30_PhonesNormalized ==
    \A i \in 1..Len(results) :
        (results[i].matched /\ results[i].phone # << >>) =>
            IsNormalizedPhone(results[i].phone)

\* The recognizer's result is a lead with a valid email.
ValidLead(result) == result.matched /\ isValidEmail(result.email)

\* C31 (chain order with early exit): the recognizers are consulted in the order
\* zillow, realtor, facebook, generic; the function returns the result of the
\* first one that gives a lead with a valid email, consulting none after it, and
\* throws only when all four gave none.
C31_ChainOrder ==
    LET order == <<"zillow", "realtor", "facebook", "generic">> IN
    /\ Len(results) <= 4
    /\ \A i \in 1..Len(results) : results[i] = Apply(order[i], text, subject)
    /\ \A i \in 1..(Len(results) - 1) : ~ValidLead(results[i])
    /\ ~outcome.done => \A i \in 1..Len(results) : ~ValidLead(results[i])
    /\ (outcome.done /\ outcome.error = Null) =>
           /\ results # << >>
           /\ outcome.lead = results[Len(results)]
           /\ ValidLead(outcome.lead)
    /\ (outcome.done /\ outcome.error # Null) =>
           /\ Len(results) = 4
           /\ ~ValidLead(results[4])
           /\ ~outcome.lead.matched

\* The zillow signature was there but zillow gave no lead, realtor had no
\* signature, and the lead of facebook, third in line, was returned.
C31_Witness ==
    /\ outcome.done
    /\ Len(results) = 3
    /\ IsZillow(text, subject) /\ ~results[1].matched
    /\ ~IsRealtor(text, subject)
    /\ outcome.lead.source = "facebook"

\* The records a retry pass may pick up, as its query reads the store.
BelowCeiling == {m \in DOMAIN pm : pm[m].exists /\ pm[m].status = "FAILED"
                                    /\ pm[m].attempts < RETRY_MAX_ATTEMPTS}

\* C32: in each run the retry pass starts only when the primary pass has gone
\* through every polled candidate; its batch holds at most 10 records, all FAILED
\* below the ceiling, oldest attempt first, none of the records left out older
\* than one taken; and processMessage is invoked on the batch's records only, in
\* that order, once each.
C32_RetryBatchShape ==
    [][\A p \in Workers :
        LET w == wk[p]
            v == wk'[p]
            batch == v.failedMessages
        IN
        /\ (w.pc = "retry_query" /\ v.pc = "retry") =>
               /\ w.messages = << >>
               /\ Len(batch) <= RETRY_TAKE
               /\ Len(batch) = RETRY_TAKE \/ Range(batch) = BelowCeiling
               /\ Range(batch) \subseteq BelowCeiling
               /\ \A i, j \in 1..Len(batch) :
                      i < j => /\ batch[i] # batch[j]
                               /\ pm[batch[i]].lastAttemptAt <= pm[batch[j]].lastAttemptAt
               /\ \A m \in Range(batch), o \in BelowCeiling \ Range(batch) :
                      pm[m].lastAttemptAt <= pm[o].lastAttemptAt
        /\ (v.pc = "pm_find" /\ w.pc # "pm_find" /\ v.ret = "retry") =>
               /\ w.pc = "retry"
               /\ w.messages = << >>
               /\ w.failedMessages # << >>
               /\ v.messageId = Head(w.failedMessages)
               /\ v.failedMessages = Tail(w.failedMessages)
        /\ v.failedMessages # w.failedMessages =>
               \/ w.pc = "retry_query"
               \/ w.pc = "retry" /\ v.pc = "pm_find"
               \/ v.failedMessages = << >>
        /\ v.pc \in {"retry_query", "retry"} => v.messages = << >>]_vars

C32_Witness ==
    LET w == wk["w1"] IN
    /\ w.pc = "pm_find" /\ w.ret = "retry"
    /\ Len(w.failedMessages) = RETRY_TAKE - 1
    /\ Cardinality(BelowCeiling) > RETRY_TAKE
    /\ "m3" \in BelowCeiling \ (Range(w.failedMessages) \cup {w.messageId})
    /\ pm[w.messageId].lastAttemptAt < pm[w.failedMessages[1]].lastAttemptAt
    /\ w.messageId # "b1"

\* C33: a phone string with exactly 10 digit characters that does not start with
\* "+" is normalized to those 10 digits, is valid, is formatted "(AAA) BBB-CCCC"
\* from them, and the formatted string normalizes back to the same 10 digits;
\* normalizePhone applied to its own result changes nothing, for every string.
C33_PhoneRoundTrip ==
    LET digits == SelectSeq(rawPhone, IsDigit) IN
    shown.done =>
        /\ shown.again = shown.normalized
        /\ (Len(digits) = 10 /\ ~(rawPhone # << >> /\ Head(rawPhone) = "+")) =>
               /\ shown.normalized = digits
               /\ shown.valid
               /\ shown.formatted = <<"(", digits[1], digits[2], digits[3], ")", " ",
                                      digits[4], digits[5], digits[6], "-",
                                      digits[7], digits[8], digits[9], digits[10]>>
               /\ shown.back = digits

\* processMessage returns to its caller in the step from the present state: from
\* its try block after the acknowledgment, or from its catch block after the alert.
ReturnsNow(p) ==
    /\ wk[p].pc \in {"ack", "alert"}
    /\ \/ wk'[p].exitCode = 0
       \/ wk'[p].result.returned /\ wk'[p].pc = ReturnPc(wk[p])

\* C34: when processMessage returns success: true the message's record is SUCCESS
\* and the message is acknowledged; when it returns success: false the record is
\* FAILED with the returned error as errorLog; success is true exactly in the
\* first case, and the record is never PROCESSING at a return.
C34_ResultAgreesWithRecord ==
    [][\A p \in Workers :
        ReturnsNow(p) =>
            LET m == wk[p].messageId
                success == wk[p].pc = "ack"
                error == wk[p].errorMessage
                row == pm'[m]
            IN
            /\ wk[p].ret # "manual" =>
                   wk'[p].result = [returned |-> TRUE, messageId |-> m,
                                    success |-> success, error |-> error]
            /\ success <=> (row.status = "SUCCESS" /\ m \notin unread')
            /\ ~success <=> (row.status = "FAILED" /\ row.errorLog = error)
            /\ row.status # "PROCESSING"]_vars

\* C35: an unread message that yields a lead, with an active agent on the roster,
\* failures and crashes that stop and runs that keep coming: the message's record
\* reaches SUCCESS and the message is acknowledged.
C35_EventualSuccess ==
    /\ <>(pm["m1"].status = "SUCCESS")
    /\ <>("m1" \notin unread)

\* A processMessage invocation for m has just been started by a run.
PassedToProcessMessage(m) == \E p \in Workers : wk[p].pc = "pm_find" /\ wk[p].messageId = m

\* C36: an unread message that no invocation is working on and whose record is
\* absent, PROCESSING or FAILED is eventually passed to processMessage by some
\* run, also when more messages are unread than a run polls.
C36_NoStarvation ==
    \A m \in Msgs :
        (/\ m \in unread
         /\ \A p \in Workers : wk[p].messageId # m
         /\ ~pm[m].exists \/ pm[m].status \in {"PROCESSING", "FAILED"})
            ~> PassedToProcessMessage(m)

\* C37: within a run processMessage is invoked at most once per message: a run
\* does not start an invocation for a message it has already processed.
C37_OncePerRun ==
    [][\A p \in Workers :
        (wk[p].pc \in {"primary", "retry"} /\ wk'[p].pc = "pm_find") =>
            wk'[p].messageId \notin Range(wk[p].results)]_vars

\* C38: an invocation that ends with status FAILED leaves every agent's
\* assignedCount and lastAssignedAt as they were when it began.
C38_FailedAttemptKeepsRoster ==
    [][\A p \in Workers :
        (wk[p].pc = "catch" /\ wk'[p].pc = "alert") =>
            \A a \in Agents :
                /\ agents'[a].assignedCount = wk[p].agentsBefore[a].assignedCount
                /\ agents'[a].lastAssignedAt = wk[p].agentsBefore[a].lastAssignedAt]_vars

\* C39: for every Lead row with replySentAt set, the agent named in the reply
\* sent to that lead is the agent the row holds as assignedAgentId.
C39_ReplyNamesAssignedAgent ==
    \A e \in Emails :
        (leads[e].exists /\ leads[e].replySentAt # NoTime) =>
            named[e] = leads[e].assignedAgentId

\* C40: a message whose record is SUCCESS has a Lead row under the email
\* extracted from it, and that row has an assigned agent and replySentAt set.
C40_SuccessHasRepliedLead ==
    \A m \in Msgs :
        (pm[m].exists /\ pm[m].status = "SUCCESS") =>
            LET e == LeadOf(m).email IN
            /\ e # Null
            /\ leads[e].exists
            /\ leads[e].assignedAgentId \in Agents
            /\ leads[e].replySentAt # NoTime

C40_Witness ==
    /\ pm["m1"].status = "SUCCESS"
    /\ pm["m2"].status = "SUCCESS"
    /\ sent["e1"] = 1
    /\ leads["e1"].sourceMessage = "m2"

====
